---- MODULE Spec2Model ----
(***************************************************************************)
(* Model of the retry / poll / download core of the LaunchFast CLI:        *)
(*   startAuthFlow        (src/auth/startAuthFlow.ts)                      *)
(*   pollForVerification  (src/auth/pollForVerification.ts)                *)
(*   downloadInstaller    (src/installer/downloadInstaller.ts)             *)
(* Every awaited boundary call (fetch, sleep) is a suspension point of the *)
(* async function and therefore a step boundary of the model.  Calls to    *)
(* the injected fetch / sleep / exit primitives and to console are         *)
(* recorded in a log, so that statements about "how many requests" and     *)
(* "which sleeps, in which order" are statements about the log.            *)
(***************************************************************************)
EXTENDS Integers, Sequences, FiniteSets, TLC

VARIABLES
    \* ---- startAuthFlow ----
    maxRetries,     \* deps.maxRetries
    attempt,        \* loop variable of the for loop
    lastError,      \* let lastError: AuthFlowError | undefined
    authPc,         \* position inside startAuthFlow
    authResps,      \* the outcomes of the fetch calls settled so far, in order
    authLog,        \* calls made to fetch / sleep / console / exit, in order
    \* ---- pollForVerification ----
    pollIntervalMs,             \* deps.pollIntervalMs
    pollTimeoutMs,              \* deps.pollTimeoutMs
    clock,                      \* the value the injected now() returned last
    startTime,                  \* const startTime = now()
    consecutiveErrors,          \* let consecutiveErrors
    hasShownNetworkWarning,     \* let hasShownNetworkWarning
    previousStatus,             \* let previousStatus
    pollPc,                     \* position inside pollForVerification
    pollResp,                   \* the outcome of the most recent fetch call
    pollLog,                    \* fetch / result / console / sleep / exit, in order
    pollSession,                \* the sessionId argument
    \* ---- downloadInstaller ----
    dlPc,           \* position inside downloadInstaller
    dlCalls,        \* number of calls of downloadInstaller so far
    dlResp,         \* what the boundary calls of the current call produced
    dlResult,       \* the DownloadResult the current call returned
    dlLog,          \* boundary calls made by the current call, in order
    dateNow,        \* the value Date.now() returned last
    tmpDirs,        \* directories that exist under os.tmpdir()
    tmpFiles,       \* <<directory, entry>> pairs that exist under os.tmpdir()
    \* ---- cleanupInstaller ----
    clCalls,        \* number of calls of cleanupInstaller so far
    clArg,          \* the installerPath argument of the latest call
    clRm,           \* the rm call the latest call made: target and outcome
    userDirs,       \* directories that exist outside os.tmpdir()
    \* ---- writeNpmToken ----
    npmrc,          \* the file at deps.npmrcPath
    npmPc,          \* position inside writeNpmToken
    npmToken,       \* the token argument
    npmRead,        \* how the fs.readFile call settled
    npmExisting,    \* const existingContent
    npmConfig,      \* const config
    npmLog,         \* calls made to fs.readFile / fs.writeFile, in order
    \* ---- run (the orchestrator) ----
    runPc,          \* position inside run()
    sigint,         \* SIGINT: "none", "deferred" (arrived, listener not run), "handled"
    skipInstaller,  \* process.env.LAUNCHFAST_SKIP_INSTALLER === 'true'
    channel,        \* the release channel parseArgs returned
    runSessionId,   \* const sessionId of authenticate()
    runVerified,    \* const verifiedSessionId, the sessionId of run()
    installerPath,  \* const installerPath of run()
    runPending,     \* the exception the finally block of run() passes on
    runLog          \* console / exit / import / install calls of index.ts

authVars == <<maxRetries, attempt, lastError, authPc, authResps, authLog>>

pollVars == <<pollIntervalMs, pollTimeoutMs, clock, startTime, consecutiveErrors,
              hasShownNetworkWarning, previousStatus, pollPc, pollResp, pollLog,
              pollSession>>

dlVars == <<dlPc, dlCalls, dlResp, dlResult, dlLog, dateNow, tmpDirs, tmpFiles>>

clVars == <<clCalls, clArg, clRm, userDirs>>

npmVars == <<npmrc, npmPc, npmToken, npmRead, npmExisting, npmConfig, npmLog>>

runVars == <<runPc, sigint, skipInstaller, channel, runSessionId, runVerified,
             installerPath, runPending, runLog>>

vars == <<authVars, pollVars, dlVars, clVars, npmVars, runVars>>

----------------------------------------------------------------------------
(* Shared vocabulary *)

\* A field that is not present in a JSON object (undefined in the code).
Absent == "<absent>"
\* A JSON value that is present but is not a string (a number, say).
NotAString == "<number>"

IsString(v) == v \notin {Absent, NotAString}

\* JavaScript truthiness of an optional string: undefined and '' are falsy.
Truthy(v) == v \notin {Absent, ""}

\* a ?? b
Coalesce(a, b) == IF a = Absent THEN b ELSE a

\* Response.ok
ResponseOk(status) == status >= 200 /\ status <= 299

\* One entry of a call log: which primitive, its text argument, its number.
Ev(e, s, n) == [e |-> e, s |-> s, n |-> n]

Count(log, e) == Cardinality({i \in 1..Len(log) : log[i].e = e})

Last(log) == log[Len(log)]

\* encodeURIComponent(text), for the texts of the model: letters and digits
\* stay, a space becomes %20.
encodeURIComponent(text) == IF text = "s 2" THEN "s%202" ELSE text

\* The value of a parameter as URLSearchParams.set and URL.toString write
\* it, for the texts of the model: letters and digits stay, a space becomes +.
searchParamsEncode(text) == IF text = "s 2" THEN "s+2" ELSE text

----------------------------------------------------------------------------
(* Bounds *)

\* largest maxRetries explored
MaxRetriesBound == 3

\* most status requests one run of the poller is followed for; the clock
\* passes the timeout no later than at the loop check after that many
MaxPolls == 7

\* most the injected clock advances between two reads of it
MaxTick == 2

\* what the injected clock shows when pollForVerification is called
InitialClock == 10

\* most calls of downloadInstaller in one run of the model
MaxDownloads == 2

\* most calls of cleanupInstaller in one run of the model
MaxCleanups == 2

\* most lines of the credential store before writeNpmToken is called
MaxLines == 3

----------------------------------------------------------------------------
(* startAuthFlow *)

\* Bodies an auth-start response can carry.  json = "invalid": response.json()
\* rejects; "nonobject": valid JSON that is not an object (null, a number);
\* "object": an object with the two fields the schema knows.
AuthBodies ==
    {[json |-> "invalid", sessionId |-> Absent, error |-> Absent],
     [json |-> "nonobject", sessionId |-> Absent, error |-> Absent]}
    \cup [json : {"object"},
          sessionId : {Absent, NotAString, "", "S1", "s 2"},
          error : {Absent, NotAString, "E1"}]

AuthStatuses == {200, 201, 403, 500}

\* What awaiting fetchFn(...) can produce: a rejection or a Response.
AuthFetchOutcomes ==
    {[threw |-> TRUE, status |-> 0,
      body |-> [json |-> "invalid", sessionId |-> Absent, error |-> Absent]]}
    \cup [threw : {FALSE}, status : AuthStatuses, body : AuthBodies]

\* z.object({ sessionId: z.string().optional(), error: z.string().optional() })
AuthStartResponseSchema(body) ==
    /\ body.json = "object"
    /\ body.sessionId = Absent \/ IsString(body.sessionId)
    /\ body.error = Absent \/ IsString(body.error)

AuthOk(value) ==
    [ok |-> TRUE, value |-> value, type |-> "ok", message |-> "", retryable |-> FALSE]

AuthErr(type, message, retryable) ==
    [ok |-> FALSE, value |-> "", type |-> type, message |-> message,
     retryable |-> retryable]

\* Variant: a body that is not JSON is a protocol violation whatever the
\* status.
nonJsonBody_alwaysViolation(status) ==
    AuthErr("protocol_violation", "Response is not valid JSON", FALSE)

\* The catch block of response.json(): the error for a body that is not JSON.
nonJsonBody(status) ==
    IF ResponseOk(status)
    THEN AuthErr("protocol_violation", "Response is not valid JSON", FALSE)
    ELSE AuthErr("transport",
                 "Server returned " \o ToString(status) \o " with non-JSON body",
                 TRUE)

\* attemptAuthRequest: one request, classified.
attemptAuthRequest(resp) ==
    IF resp.threw
    THEN AuthErr("transport", "Network error", TRUE)
    ELSE IF resp.body.json = "invalid"
    THEN nonJsonBody(resp.status)
    ELSE IF ~AuthStartResponseSchema(resp.body)
    THEN AuthErr("protocol_violation", "Invalid response schema", FALSE)
    ELSE IF ~ResponseOk(resp.status)
    THEN IF resp.status = 403
         THEN AuthErr("forbidden",
                      Coalesce(resp.body.error, "No purchase found for this email"),
                      FALSE)
         ELSE AuthErr("server_error",
                      Coalesce(resp.body.error, "Authentication failed"), TRUE)
    ELSE IF ~Truthy(resp.body.sessionId)
    THEN AuthErr("protocol_violation",
                 "Server returned 200 OK but missing required sessionId", FALSE)
    ELSE AuthOk(resp.body.sessionId)

\* Variant: a forbidden error is taken for a retryable one.
isRetryable_forbiddenRetried(error) ==
    error.retryable = TRUE \/ error.type = "forbidden"

\* Variant: a protocol violation is taken for a retryable error.
isRetryable_violationRetried(error) ==
    error.retryable = TRUE \/ error.type = "protocol_violation"

\* 'retryable' in error && error.retryable === true
isRetryable(error) == error.retryable = TRUE

RECURSIVE Pow2(_)
Pow2(n) == IF n <= 0 THEN 1 ELSE 2 * Pow2(n - 1)

\* Variant: every delay is the first one, the delay does not grow.
getBackoffDelay_constant(a) == Pow2(1) * 1000

\* Variant: the exponent is counted from 0 instead of from 1.
getBackoffDelay_fromZero(a) == Pow2(a - 1) * 1000

\* Math.pow(2, attempt) * 1000
getBackoffDelay(a) == Pow2(a) * 1000

NoError == AuthErr("none", "", FALSE)

\* Variant: only the first error is kept.
nextLastError_keepFirst(previous, error) ==
    IF previous.type = "none" THEN error ELSE previous

\* lastError = error, in every iteration that failed
nextLastError(previous, error) == error

\* startAuthFlow has been called with deps.maxRetries = n.
AuthCalled(n) ==
    /\ maxRetries = n
    /\ attempt = 1
    /\ lastError = NoError
    /\ authPc = "loop"
    /\ authResps = <<>>
    /\ authLog = <<>>

\* startAuthFlow has not been called.
AuthIdle ==
    /\ maxRetries = 0
    /\ attempt = 1
    /\ lastError = NoError
    /\ authPc = "idle"
    /\ authResps = <<>>
    /\ authLog = <<>>

\* Variant: the check for a missing lastError is left out, a loop that made
\* no attempt ends like one whose attempts failed with transport.
AuthExhausted_noErrorExits ==
    IF lastError.type = "none" \/ lastError.type = "transport"
    THEN /\ authPc' = "exited"
         /\ authLog' = authLog \o
                <<Ev("print", "Could not reach the authentication server.", 0),
                  Ev("exit", "", 1)>>
    ELSE IF lastError.type = "server_error"
    THEN /\ authPc' = "exited"
         /\ authLog' = authLog \o
                <<Ev("print", "Authentication server returned an error.", 0),
                  Ev("exit", "", 1)>>
    ELSE /\ authPc' = "thrown"
         /\ authLog' = Append(authLog,
                Ev("throw", "Invariant breach: unexpected retryable error type after exhaustion", 0))

\* The code after the for loop: retries exhausted.
AuthExhausted ==
    IF lastError.type = "none"
    THEN /\ authPc' = "thrown"
         /\ authLog' = Append(authLog,
                Ev("throw", "Invariant breach: retry loop exited without error", 0))
    ELSE IF lastError.type = "transport"
    THEN /\ authPc' = "exited"
         /\ authLog' = authLog \o
                <<Ev("print", "Could not reach the authentication server.", 0),
                  Ev("exit", "", 1)>>
    ELSE IF lastError.type = "server_error"
    THEN /\ authPc' = "exited"
         /\ authLog' = authLog \o
                <<Ev("print", "Authentication server returned an error.", 0),
                  Ev("exit", "", 1)>>
    ELSE /\ authPc' = "thrown"
         /\ authLog' = Append(authLog,
                Ev("throw", "Invariant breach: unexpected retryable error type after exhaustion", 0))

\* The loop condition attempt <= maxRetries; a true condition runs into the
\* await of fetchFn, a false one into the code after the loop.
AuthLoop ==
    /\ authPc = "loop"
    /\ IF attempt <= maxRetries
       THEN /\ authPc' = "fetching"
            /\ authLog' = Append(authLog, Ev("fetch", "/resources/cli-auth/start", attempt))
       ELSE AuthExhausted
    /\ UNCHANGED <<maxRetries, attempt, lastError, authResps>>
    /\ UNCHANGED <<pollVars, dlVars, clVars, npmVars, runVars>>

\* The fetch settles; the loop body runs up to its next await or its end.
AuthResponse ==
    /\ authPc = "fetching"
    /\ \E resp \in AuthFetchOutcomes :
        LET result == attemptAuthRequest(resp) IN
        /\ authResps' = Append(authResps, resp)
        /\ IF result.ok
           THEN /\ authPc' = "returned"
                /\ authLog' = Append(authLog, Ev("return", result.value, 0))
                /\ UNCHANGED <<attempt, lastError>>
           ELSE /\ lastError' = nextLastError(lastError, result)
                /\ IF ~isRetryable(result)
                   THEN /\ UNCHANGED attempt
                        /\ IF result.type = "forbidden"
                           THEN /\ authPc' = "exited"
                                /\ authLog' = authLog \o
                                       <<Ev("print", result.message, 0),
                                         Ev("exit", "", 1)>>
                           ELSE IF result.type = "protocol_violation"
                           THEN /\ authPc' = "thrown"
                                /\ authLog' = Append(authLog,
                                       Ev("throw", "Protocol violation: " \o result.message, 0))
                           ELSE /\ authPc' = "thrown"
                                /\ authLog' = Append(authLog,
                                       Ev("throw", "Invariant breach: unhandled non-retryable error type", 0))
                   ELSE IF attempt < maxRetries
                   THEN /\ authPc' = "sleeping"
                        /\ authLog' = authLog \o
                               <<Ev("print", "Retry", attempt),
                                 Ev("sleep", "", getBackoffDelay(attempt))>>
                        /\ UNCHANGED attempt
                   ELSE /\ authPc' = "loop"
                        /\ attempt' = attempt + 1
                        /\ UNCHANGED authLog
    /\ UNCHANGED maxRetries
    /\ UNCHANGED <<pollVars, dlVars, clVars, npmVars, runVars>>

\* Variant: the loop body is never resumed after the backoff sleep.
AuthSleepDone_noResume ==
    /\ authPc = "sleeping"
    /\ UNCHANGED vars

\* The backoff sleep resolves; attempt++ and back to the loop condition.
AuthSleepDone ==
    /\ authPc = "sleeping"
    /\ attempt' = attempt + 1
    /\ authPc' = "loop"
    /\ UNCHANGED <<maxRetries, lastError, authResps, authLog>>
    /\ UNCHANGED <<pollVars, dlVars, clVars, npmVars, runVars>>

----------------------------------------------------------------------------
(* pollForVerification *)

\* Bodies a status response can carry.  json = "invalid": response.json()
\* rejects; "null": the JSON value null; "object": any other JSON value, with
\* the fields the code reads (a number or an array reads as all-Absent).
NoPollBody == [json |-> "invalid", status |-> Absent, token |-> Absent, session |-> Absent]

PollBodies ==
    {NoPollBody,
     [json |-> "null", status |-> Absent, token |-> Absent, session |-> Absent]}
    \cup [json : {"object"}, status : {Absent, "pending", "expired", "unknown"},
          token : {Absent}, session : {Absent}]
    \cup [json : {"object"}, status : {"verified"},
          token : {Absent, "", "T1"}, session : {Absent, "X1"}]

PollStatuses == {200, 500}

PollFetchOutcomes ==
    {[threw |-> TRUE, status |-> 0, body |-> NoPollBody]}
    \cup [threw : {FALSE}, status : PollStatuses, body : PollBodies]

NoPollResp == [threw |-> FALSE, status |-> 0, body |-> NoPollBody]

PollIntervals == {100, 3000}

PollTimeouts == {0, 2}

PollRes(type, token, status, error) ==
    [type |-> type, token |-> token, status |-> status, error |-> error]

\* Variant: the token check of the verified branch is left out.
classifyStatus_noTokenCheck(data) ==
    IF data.status = "verified"
    THEN PollRes("verified", data.token, 0, "")
    ELSE IF data.status = "expired"
    THEN PollRes("expired", Absent, 0, "")
    ELSE PollRes("pending", Absent, 0, "")

\* Variant: the verified payload is read from the field named session.
classifyStatus_sessionField(data) ==
    IF data.status = "verified"
    THEN IF ~Truthy(data.session)
         THEN PollRes("invariant_violation", Absent, 0, "No token returned after verification")
         ELSE PollRes("verified", data.session, 0, "")
    ELSE IF data.status = "expired"
    THEN PollRes("expired", Absent, 0, "")
    ELSE PollRes("pending", Absent, 0, "")

\* Variant: the expired branch is left out, expired reads as pending.
classifyStatus_expiredAsPending(data) ==
    IF data.status = "verified"
    THEN IF ~Truthy(data.token)
         THEN PollRes("invariant_violation", Absent, 0, "No token returned after verification")
         ELSE PollRes("verified", data.token, 0, "")
    ELSE PollRes("pending", Absent, 0, "")

\* attemptPoll, lines "classify status": the body of a 2xx response.
classifyStatus(data) ==
    IF data.status = "verified"
    THEN IF ~Truthy(data.token)
         THEN PollRes("invariant_violation", Absent, 0, "No token returned after verification")
         ELSE PollRes("verified", data.token, 0, "")
    ELSE IF data.status = "expired"
    THEN PollRes("expired", Absent, 0, "")
    ELSE PollRes("pending", Absent, 0, "")

\* attemptPoll: one status request, classified.  Reading data.status of the
\* JSON value null raises a TypeError outside the two try blocks; it is the
\* result type "type_error" here, which the caller never gets to inspect.
attemptPoll(resp) ==
    IF resp.threw
    THEN PollRes("boundary_error", Absent, 0, "network")
    ELSE IF resp.body.json = "invalid"
    THEN PollRes("boundary_error", Absent, 0, "parse")
    ELSE IF ~ResponseOk(resp.status)
    THEN PollRes("http_error", Absent, resp.status, "")
    ELSE IF resp.body.json = "null"
    THEN PollRes("type_error", Absent, 0, "Cannot read properties of null")
    ELSE classifyStatus(resp.body)

\* Variant: only a boundary error counts as transient.
isTransientFailure_boundaryOnly(result) == result.type = "boundary_error"

\* result.type === 'boundary_error' || result.type === 'http_error'
isTransientFailure(result) == result.type \in {"boundary_error", "http_error"}

getTransientErrorMessage(result) ==
    IF result.type = "boundary_error"
    THEN "Network unstable - retrying..."
    ELSE IF result.type = "http_error"
    THEN "Server error (" \o ToString(result.status) \o ") - retrying..."
    ELSE "Temporary error - retrying..."

\* Variant: the bound of the loop condition is inclusive.
withinTimeout_inclusive(now, start, timeout) == now - start <= timeout

\* while (now() - startTime < pollTimeoutMs)
withinTimeout(now, start, timeout) == now - start < timeout

\* Variant: the warning is shown from the second consecutive error on.
showNetworkWarning_early(errors, shown) == errors >= 2 /\ ~shown

\* Variant: the warning flag is not consulted.
showNetworkWarning_unflagged(errors, shown) == errors >= 3

\* if (consecutiveErrors >= 3 && !hasShownNetworkWarning)
showNetworkWarning(errors, shown) == errors >= 3 /\ ~shown

\* pollForVerification has been called with the given interval and timeout;
\* it has read the clock once, for startTime.
PollCalled(sessionId, interval, timeout) ==
    /\ pollSession = sessionId
    /\ pollIntervalMs = interval
    /\ pollTimeoutMs = timeout
    /\ clock = InitialClock
    /\ startTime = InitialClock
    /\ consecutiveErrors = 0
    /\ hasShownNetworkWarning = FALSE
    /\ previousStatus = "null"
    /\ pollPc = "loop"
    /\ pollResp = NoPollResp
    /\ pollLog = <<>>

\* pollForVerification has not been called.
PollIdle ==
    /\ pollSession = ""
    /\ pollIntervalMs = 0
    /\ pollTimeoutMs = 0
    /\ clock = InitialClock
    /\ startTime = InitialClock
    /\ consecutiveErrors = 0
    /\ hasShownNetworkWarning = FALSE
    /\ previousStatus = "null"
    /\ pollPc = "idle"
    /\ pollResp = NoPollResp
    /\ pollLog = <<>>

\* `${apiUrl}/resources/cli-auth/status?session=${encodeURIComponent(sessionId)}`
StatusUrl(sessionId) ==
    "/resources/cli-auth/status?session=" \o encodeURIComponent(sessionId)

\* Variant: the sleep is not awaited, the loop condition is evaluated while
\* the sleep is still running.
PollLoop_sleepNotAwaited ==
    /\ pollPc \in {"loop", "sleeping"}
    /\ \E d \in 0..MaxTick :
        LET now == clock + d IN
        /\ Count(pollLog, "fetch") >= MaxPolls => ~withinTimeout(now, startTime, pollTimeoutMs)
        /\ clock' = now
        /\ IF withinTimeout(now, startTime, pollTimeoutMs)
           THEN /\ pollPc' = "fetching"
                /\ pollLog' = Append(pollLog, Ev("fetch", StatusUrl(pollSession), 0))
           ELSE /\ pollPc' = "exited"
                /\ pollLog' = pollLog \o
                       <<Ev("error", "Verification timed out.", 0),
                         Ev("exit", "", 1)>>
    /\ UNCHANGED <<pollIntervalMs, pollTimeoutMs, startTime, consecutiveErrors,
                   hasShownNetworkWarning, previousStatus, pollResp, pollSession>>
    /\ UNCHANGED <<authVars, dlVars, clVars, npmVars, runVars>>

\* The loop condition: now() is read (the clock has advanced by d since the
\* last read); a true condition runs into the await of fetchFn, a false one
\* into the timeout code after the loop.
PollLoop ==
    /\ pollPc = "loop"
    /\ \E d \in 0..MaxTick :
        LET now == clock + d IN
        /\ Count(pollLog, "fetch") >= MaxPolls => ~withinTimeout(now, startTime, pollTimeoutMs)
        /\ clock' = now
        /\ IF withinTimeout(now, startTime, pollTimeoutMs)
           THEN /\ pollPc' = "fetching"
                /\ pollLog' = Append(pollLog, Ev("fetch", StatusUrl(pollSession), 0))
           ELSE /\ pollPc' = "exited"
                /\ pollLog' = pollLog \o
                       <<Ev("error", "Verification timed out.", 0),
                         Ev("exit", "", 1)>>
    /\ UNCHANGED <<pollIntervalMs, pollTimeoutMs, startTime, consecutiveErrors,
                   hasShownNetworkWarning, previousStatus, pollResp, pollSession>>
    /\ UNCHANGED <<authVars, dlVars, clVars, npmVars, runVars>>

\* The fetch settles; the loop body runs up to its next await or its end.
PollResponse ==
    /\ pollPc = "fetching"
    /\ \E resp \in PollFetchOutcomes :
        LET result == attemptPoll(resp)
            got == Append(pollLog, Ev("result", result.type, result.status))
            restored == IF hasShownNetworkWarning
                        THEN <<Ev("log", "Connection restored.", 0)>>
                        ELSE <<>>
        IN
        /\ pollResp' = resp
        /\ IF result.type = "type_error"
           THEN /\ pollPc' = "thrown"
                /\ pollLog' = Append(got, Ev("throw", result.error, 0))
                /\ UNCHANGED <<consecutiveErrors, hasShownNetworkWarning, previousStatus>>
           ELSE IF isTransientFailure(result)
           THEN /\ consecutiveErrors' = consecutiveErrors + 1
                /\ IF showNetworkWarning(consecutiveErrors + 1, hasShownNetworkWarning)
                   THEN /\ hasShownNetworkWarning' = TRUE
                        /\ pollLog' = got \o
                               <<Ev("log", getTransientErrorMessage(result), 0),
                                 Ev("sleep", "", pollIntervalMs)>>
                   ELSE /\ UNCHANGED hasShownNetworkWarning
                        /\ pollLog' = Append(got, Ev("sleep", "", pollIntervalMs))
                /\ pollPc' = "sleeping"
                /\ UNCHANGED previousStatus
           ELSE /\ consecutiveErrors' = 0
                /\ hasShownNetworkWarning' = FALSE
                /\ IF result.type = "verified"
                   THEN /\ pollPc' = "returned"
                        /\ pollLog' = got \o restored \o
                               (IF previousStatus = "pending"
                                THEN <<Ev("log", "Verification link opened - finalizing access...", 0)>>
                                ELSE <<>>) \o
                               <<Ev("return", result.token, 0)>>
                        /\ UNCHANGED previousStatus
                   ELSE IF result.type = "expired"
                   THEN /\ pollPc' = "exited"
                        /\ pollLog' = got \o restored \o
                               <<Ev("error", "Verification session expired.", 0),
                                 Ev("exit", "", 1)>>
                        /\ UNCHANGED previousStatus
                   ELSE IF result.type = "invariant_violation"
                   THEN /\ pollPc' = "thrown"
                        /\ pollLog' = got \o restored \o <<Ev("throw", result.error, 0)>>
                        /\ UNCHANGED previousStatus
                   ELSE /\ previousStatus' = "pending"
                        /\ pollPc' = "sleeping"
                        /\ pollLog' = got \o restored \o
                               <<Ev("write", ".", 0), Ev("sleep", "", pollIntervalMs)>>
    /\ UNCHANGED <<pollIntervalMs, pollTimeoutMs, clock, startTime, pollSession>>
    /\ UNCHANGED <<authVars, dlVars, clVars, npmVars, runVars>>

\* Variant: the loop is never resumed after the poll-interval sleep.
PollSleepDone_noResume ==
    /\ pollPc = "sleeping"
    /\ UNCHANGED vars

\* The poll-interval sleep resolves; back to the loop condition.
PollSleepDone ==
    /\ pollPc = "sleeping"
    /\ pollPc' = "loop"
    /\ UNCHANGED <<pollIntervalMs, pollTimeoutMs, clock, startTime, consecutiveErrors,
                   hasShownNetworkWarning, previousStatus, pollResp, pollLog,
                   pollSession>>
    /\ UNCHANGED <<authVars, dlVars, clVars, npmVars, runVars>>
----------------------------------------------------------------------------
(* downloadInstaller *)

\* What the boundary calls of one downloadInstaller call produce.
\*   threw     fetch rejected
\*   status    Response.status
\*   json      what response.json() gives: "invalid" (rejects), "null", "object"
\*   error     the error field of the JSON object
\*   checksum  response.headers.get('X-Checksum-SHA256'), Absent for null
\*   version   response.headers.get('X-Package-Version'), Absent for null
\*   body      what response.arrayBuffer() gives, Unreadable if it rejects
\*   fs        which filesystem call fails: "ok" (none), "mkdir", "write",
\*             "extract"
\*   rmOk      whether the rm of the catch block succeeds
Unreadable == "<unreadable>"

DlOutcome(threw, status, json, error, checksum, version, body, fs, rmOk) ==
    [threw |-> threw, status |-> status, json |-> json, error |-> error,
     checksum |-> checksum, version |-> version, body |-> body, fs |-> fs,
     rmOk |-> rmOk]

NoDlResp == DlOutcome(FALSE, 0, "invalid", Absent, Absent, Absent, Unreadable, "ok", TRUE)

DlErrorStatuses == {400, 401, 403, 404, 500}

DlChecksums == {Absent, "", "h1", "H1", "h2"}

DlBodies == {Unreadable, "b1", "b2"}

\* createHash('sha256').update(buffer).digest('hex'): lower-case hex.
Sha256(body) == IF body = "b1" THEN "h1" ELSE "h2"

DlOutcomes ==
    {DlOutcome(TRUE, 0, "invalid", Absent, Absent, Absent, Unreadable, "ok", TRUE)}
    \cup {DlOutcome(FALSE, st, j, e, Absent, Absent, Unreadable, "ok", TRUE) :
            st \in DlErrorStatuses, j \in {"invalid", "null", "object"}, e \in {Absent, "E1"}}
    \cup {DlOutcome(FALSE, 200, "invalid", Absent, c, v, b, f, r) :
            c \in DlChecksums, v \in {Absent, "1.0.0"}, b \in DlBodies,
            f \in {"ok", "mkdir", "write", "extract"}, r \in BOOLEAN}

\* Outcomes that differ only in a field the call never reads are one outcome.
DlCanonical(o) ==
    /\ o.json # "object" => o.error = Absent
    /\ (o.fs \in {"ok", "mkdir"} => o.rmOk)
    /\ (o.status = 200 /\ (~Truthy(o.checksum) \/ o.body = Unreadable
                           \/ Sha256(o.body) # o.checksum)) => (o.fs = "ok")

DlRes(type, path, version, message, expected, actual, errorType) ==
    [type |-> type, installerPath |-> path, version |-> version,
     message |-> message, expected |-> expected, actual |-> actual,
     errorType |-> errorType]

NoDlResult == DlRes("none", <<>>, "", "", "", "", "")

DlBoundaryError(errorType, message) ==
    DlRes("boundary_error", <<>>, "", message, "", "", errorType)

\* A path is the sequence of its segments, and a segment is the sequence of
\* the pieces of text its name is made of, so that a search for a piece of
\* text in a path is a search through the pieces.
Seg(name) == <<name>>

\* The text every scratch directory name starts with.
ScratchMarker == "launchfast-installer-"

\* join(tmpdir(), `launchfast-installer-${Date.now()}`)
TempDirOf(now) == <<Seg("tmp"), <<ScratchMarker, ToString(now)>>>>

\* The branch for a response that is not ok.  Reading data.error of the JSON
\* value null raises inside the try block, like a response.json() rejection.
dlErrorResponse(o) ==
    IF o.status \in {400, 403, 404}
    THEN IF o.json # "object"
         THEN DlRes("auth_error", <<>>, "", "Server error: " \o ToString(o.status), "", "", "")
         ELSE IF o.status = 403
         THEN DlRes("auth_error", <<>>, "", Coalesce(o.error, "Session not verified or expired"), "", "", "")
         ELSE IF o.status = 404
         THEN DlRes("not_found", <<>>, "", Coalesce(o.error, "No installer package available"), "", "", "")
         ELSE DlRes("auth_error", <<>>, "", Coalesce(o.error, "Invalid request"), "", "", "")
    ELSE DlBoundaryError("network", "HTTP " \o ToString(o.status))

\* Variant: the check for the checksum header is left out.
missingChecksum_never(expected) == FALSE

\* !expectedChecksum
missingChecksum(expected) == ~Truthy(expected)

\* Variant: the header value is used as it is read.
packageVersion_raw(header) == header

\* response.headers.get('X-Package-Version') ?? 'unknown'
packageVersion(header) == Coalesce(header, "unknown")

\* Variant: the comparison of the two checksums is left out.
checksumDiffers_never(actual, expected) == FALSE

\* actualChecksum !== expectedChecksum
checksumDiffers(actual, expected) == actual # expected

\* The boundary calls of downloadInstaller that failed in an outcome.  Reading
\* data.error of the JSON value null raises inside the same try block as a
\* rejected response.json(), so both count as a failure of the step "json".
dlFailedSteps(o) ==
    IF o.threw THEN {"fetch"}
    ELSE IF ~ResponseOk(o.status)
    THEN IF o.status \in {400, 403, 404} /\ o.json # "object" THEN {"json"} ELSE {}
    ELSE IF ~Truthy(o.checksum) THEN {}
    ELSE IF o.body = Unreadable THEN {"arrayBuffer"}
    ELSE IF Sha256(o.body) # o.checksum THEN {}
    ELSE IF o.fs = "mkdir" THEN {"mkdir"}
    ELSE IF o.fs \in {"write", "extract"}
    THEN {o.fs} \cup (IF o.rmOk THEN {} ELSE {"rm"})
    ELSE {}

\* Variant: the removal in the catch block has no .catch of its own.
DlCaughtSteps_rmUncaught ==
    {"fetch", "json", "arrayBuffer", "mkdir", "write", "extract"}

\* The boundary calls whose failure is caught: each sits in a try block, and
\* the removal in the last catch block carries .catch(() => {}).
DlCaughtSteps ==
    {"fetch", "json", "arrayBuffer", "mkdir", "write", "extract", "rm"}

\* An exception leaves downloadInstaller.
dlEscapes(o) == ~(dlFailedSteps(o) \subseteq DlCaughtSteps)

\* downloadInstaller from the settled fetch to its return: the result.
dlResultOf(o, now) ==
    IF o.threw THEN DlBoundaryError("network", "Network error")
    ELSE IF ~ResponseOk(o.status) THEN dlErrorResponse(o)
    ELSE IF missingChecksum(o.checksum) THEN DlBoundaryError("parse", "Missing checksum header")
    ELSE IF o.body = Unreadable THEN DlBoundaryError("parse", "body read failed")
    ELSE IF checksumDiffers(Sha256(o.body), o.checksum)
    THEN DlRes("checksum_mismatch", <<>>, "", "", o.checksum, Sha256(o.body), "")
    ELSE IF o.fs = "mkdir" THEN DlBoundaryError("parse", "Failed to create temp directory")
    ELSE IF o.fs \in {"write", "extract"} THEN DlBoundaryError("parse", "Failed to extract package")
    ELSE DlRes("success", Append(TempDirOf(now), Seg("package")),
               packageVersion(o.version), "", "", "", "")

\* The boundary calls the same stretch of code makes after the fetch.
dlCallsOf(o) ==
    IF o.threw THEN <<>>
    ELSE IF ~ResponseOk(o.status)
    THEN IF o.status \in {400, 403, 404} THEN <<Ev("json", "", 0)>> ELSE <<>>
    ELSE IF missingChecksum(o.checksum) THEN <<>>
    ELSE IF o.body = Unreadable THEN <<Ev("arrayBuffer", "", 0)>>
    ELSE IF checksumDiffers(Sha256(o.body), o.checksum) THEN <<Ev("arrayBuffer", "", 0)>>
    ELSE <<Ev("arrayBuffer", "", 0), Ev("Date.now", "", 0), Ev("mkdir", "", 0)>> \o
         (IF o.fs = "mkdir" THEN <<>>
          ELSE IF o.fs = "write" THEN <<Ev("writeFile", "package.tgz", 0), Ev("rm", "", 0)>>
          ELSE IF o.fs = "extract"
          THEN <<Ev("writeFile", "package.tgz", 0), Ev("extract", "package.tgz", 0), Ev("rm", "", 0)>>
          ELSE <<Ev("writeFile", "package.tgz", 0), Ev("extract", "package.tgz", 0)>>)

\* Variant: the catch block of the write and extract steps removes nothing.
dlDirsAfter_noCleanup(o, now, dirs) ==
    IF "mkdir" \notin {ev.e : ev \in {dlCallsOf(o)[i] : i \in 1..Len(dlCallsOf(o))}}
       \/ o.fs = "mkdir"
    THEN dirs
    ELSE dirs \cup {TempDirOf(now)}

\* The directories under os.tmpdir() after the call.
dlDirsAfter(o, now, dirs) ==
    IF "mkdir" \notin {ev.e : ev \in {dlCallsOf(o)[i] : i \in 1..Len(dlCallsOf(o))}}
       \/ o.fs = "mkdir"
    THEN dirs
    ELSE IF o.fs \in {"write", "extract"} /\ o.rmOk
    THEN dirs \ {TempDirOf(now)}
    ELSE dirs \cup {TempDirOf(now)}

\* The directory entries under os.tmpdir() after the call.
dlFilesAfter(o, now, dirs, files) ==
    LET d == TempDirOf(now) IN
    IF d \notin dlDirsAfter(o, now, dirs)
    THEN {f \in files : f[1] # d}
    ELSE IF "mkdir" \notin {ev.e : ev \in {dlCallsOf(o)[i] : i \in 1..Len(dlCallsOf(o))}}
            \/ o.fs \in {"mkdir", "write"}
    THEN files
    ELSE IF o.fs = "extract"
    THEN files \cup {<<d, "package.tgz">>}
    ELSE files \cup {<<d, "package.tgz">>, <<d, "package">>}

\* downloadInstaller has not been called.
DownloadIdle ==
    /\ dlPc = "idle"
    /\ dlCalls = 0
    /\ dlResp = NoDlResp
    /\ dlResult = NoDlResult
    /\ dlLog = <<>>
    /\ dateNow = InitialClock
    /\ tmpDirs = {}
    /\ tmpFiles = {}

\* downloadUrl.toString() after the two searchParams.set calls
DownloadUrl(sessionId, ch) ==
    "/resources/installer/download?session=" \o searchParamsEncode(sessionId)
        \o "&channel=" \o ch

\* downloadInstaller(sessionId, channel) is called: it builds the URL and
\* awaits fetch.
DownloadCallWith(sessionId, ch) ==
    /\ dlPc \in {"idle", "done"}
    /\ dlCalls < MaxDownloads
    /\ dlPc' = "fetching"
    /\ dlCalls' = dlCalls + 1
    /\ dlResp' = NoDlResp
    /\ dlResult' = NoDlResult
    /\ dlLog' = <<Ev("fetch", DownloadUrl(sessionId, ch), 0)>>
    /\ UNCHANGED <<dateNow, tmpDirs, tmpFiles>>

\* Some caller calls downloadInstaller.
DownloadCall ==
    /\ DownloadCallWith("S1", "stable")
    /\ UNCHANGED <<authVars, pollVars, clVars, npmVars, runVars>>

\* The fetch settles and downloadInstaller runs to its return.
DownloadResponse ==
    /\ dlPc = "fetching"
    /\ \E o \in DlOutcomes, d \in 0..MaxTick :
        LET now == dateNow + d IN
        /\ DlCanonical(o)
        /\ dlResp' = o
        /\ dateNow' = now
        /\ dlResult' = IF dlEscapes(o) THEN NoDlResult ELSE dlResultOf(o, now)
        /\ dlLog' = dlLog \o dlCallsOf(o)
        /\ tmpDirs' = dlDirsAfter(o, now, tmpDirs)
        /\ tmpFiles' = dlFilesAfter(o, now, tmpDirs, tmpFiles)
        /\ dlPc' = IF dlEscapes(o) THEN "thrown" ELSE "done"
    /\ UNCHANGED dlCalls
    /\ UNCHANGED <<authVars, pollVars, clVars, npmVars, runVars>>

----------------------------------------------------------------------------
(* cleanupInstaller *)

\* Directories of the user that exist outside os.tmpdir(); the name of one
\* of them happens to contain the text of the scratch marker.
UserDirs ==
    {<<Seg("home"), Seg("project")>>,
     <<Seg("home"), <<"my-", ScratchMarker, "notes">>>>}

\* The paths cleanupInstaller is called with: '' (the empty path), a path
\* that exists nowhere, and the entry 'package' of every directory of the
\* model.
CleanupPaths(dirs) ==
    {<<>>, <<Seg("unrelated"), Seg("path")>>}
    \cup {Append(d, Seg("package")) : d \in dirs}

\* Variant: the test of the path for the scratch marker is left out.
includes_always(path, text) == TRUE

\* installerPath.includes(text), for a text that holds no path separator
includes(path, text) ==
    \E i \in 1..Len(path) : \E j \in 1..Len(path[i]) : path[i][j] = text

\* Variant: the path itself is taken instead of its parent.
joinParent_self(path) == path

\* join(installerPath, '..')
joinParent(path) == SubSeq(path, 1, Len(path) - 1)

\* target is dir or an ancestor of dir
IsWithin(dir, target) ==
    Len(target) <= Len(dir) /\ SubSeq(dir, 1, Len(target)) = target

\* rm(target, { recursive: true, force: true }) that succeeds: the target
\* and everything below it is gone, a target that does not exist is no error.
rmDirs(target, dirs) == {d \in dirs : ~IsWithin(d, target)}

rmFiles(target, files) == {f \in files : ~IsWithin(f[1], target)}

\* The target of the rm call of cleanupInstaller(path), <<>> when it makes
\* none (the two early returns).
NoTarget == <<>>

cleanupTarget(path) ==
    IF path = <<>> THEN NoTarget
    ELSE IF ~includes(path, ScratchMarker) THEN NoTarget
    ELSE joinParent(path)

\* cleanupInstaller makes an rm call for this path
cleanupRemoves(path) == path # <<>> /\ includes(path, ScratchMarker)

\* What a call of cleanupInstaller did with rm: whether it called it, with
\* which target, and whether the call succeeded.
RmCall(called, target, ok, raised) ==
    [called |-> called, target |-> target, ok |-> ok, raised |-> raised]

NoRm == RmCall(FALSE, NoTarget, TRUE, FALSE)

\* Variant: the rejection of rm is not caught.
rmRaises_uncaught(ok) == ~ok

\* rm(...).catch(() => {}): whether the awaited promise rejects
rmRaises(ok) == FALSE

\* cleanupInstaller has not been called.
CleanupIdle ==
    /\ clCalls = 0
    /\ clArg = <<>>
    /\ clRm = NoRm
    /\ userDirs = UserDirs

\* cleanupInstaller(path) from the call to its return; ok is whether the rm
\* call succeeds, its rejection is caught and dropped.
CleanupInstaller(path, ok) ==
    /\ clCalls < MaxCleanups
    /\ dlPc # "fetching"
    /\ clCalls' = clCalls + 1
    /\ clArg' = path
    /\ IF cleanupRemoves(path)
       THEN /\ clRm' = RmCall(TRUE, cleanupTarget(path), ok, rmRaises(ok))
            /\ IF ok
               THEN /\ tmpDirs' = rmDirs(cleanupTarget(path), tmpDirs)
                    /\ tmpFiles' = rmFiles(cleanupTarget(path), tmpFiles)
                    /\ userDirs' = rmDirs(cleanupTarget(path), userDirs)
               ELSE UNCHANGED <<tmpDirs, tmpFiles, userDirs>>
       ELSE /\ ok
            /\ clRm' = NoRm
            /\ UNCHANGED <<tmpDirs, tmpFiles, userDirs>>
    /\ UNCHANGED <<dlPc, dlCalls, dlResp, dlResult, dlLog, dateNow>>
    /\ UNCHANGED <<authVars, pollVars, npmVars>>

\* Some caller calls cleanupInstaller with some path.
CleanupCall ==
    /\ \E path \in CleanupPaths(tmpDirs \cup userDirs), ok \in BOOLEAN :
          CleanupInstaller(path, ok)
    /\ UNCHANGED runVars

----------------------------------------------------------------------------
(* writeNpmToken *)

\* config['//registry.npmjs.org/:_authToken']
TokenKey == "//registry.npmjs.org/:_authToken"

\* One line of an ini file: a comment, or key=value with the value written
\* bare or in double quotes.
Line(kind, key, value, quoted) ==
    [kind |-> kind, key |-> key, value |-> value, quoted |-> quoted]

NpmrcLines ==
    {Line("comment", "", "; note", FALSE),
     Line("entry", "registry", "R1", FALSE),
     Line("entry", "registry", "R2", FALSE),
     Line("entry", "email", "E1", TRUE),
     Line("entry", TokenKey, "old", FALSE)}

\* The file: whether it exists, and its lines ('' is no line at all).
File(exists, lines) == [exists |-> exists, lines |-> lines]

NoFile == File(FALSE, <<>>)

SeqsUpTo(S, n) == UNION {[1..k -> S] : k \in 0..n}

NpmrcFiles == {NoFile} \cup {File(TRUE, ls) : ls \in SeqsUpTo(NpmrcLines, MaxLines)}

NpmTokens == {"T1", "T2"}

\* What fs.readFile does: "ok", "ENOENT", or another error such as "EACCES".
ReadOutcomes == {"ok", "ENOENT", "EACCES"}

\* A JavaScript object with string keys: its entries in insertion order.
KeyOf(obj, key) == {i \in 1..Len(obj) : obj[i].key = key}

Has(obj, key) == KeyOf(obj, key) # {}

Get(obj, key) == obj[CHOOSE i \in KeyOf(obj, key) : TRUE].value

\* obj[key] = value, as the ini parser does it for each line it reads
Put(obj, key, value) ==
    IF Has(obj, key)
    THEN [i \in 1..Len(obj) |->
            IF obj[i].key = key THEN [key |-> key, value |-> value] ELSE obj[i]]
    ELSE Append(obj, [key |-> key, value |-> value])

RECURSIVE parseLines(_, _)
parseLines(lines, obj) ==
    IF lines = <<>> THEN obj
    ELSE parseLines(Tail(lines),
                    IF Head(lines).kind = "comment" THEN obj
                    ELSE Put(obj, Head(lines).key, Head(lines).value))

\* parse(content) of ini: comments are dropped, quotes are taken off, a key
\* that comes twice keeps its place and takes the later value.
parse(lines) == parseLines(lines, <<>>)

\* stringify(config) of ini: one bare key=value line per key.
stringify(obj) ==
    [i \in 1..Len(obj) |-> Line("entry", obj[i].key, obj[i].value, FALSE)]

\* Variant: every rejection of fs.readFile reads as a missing file.
readErrorIsExpected_any(code) == TRUE

\* error instanceof Error && 'code' in error && error.code === 'ENOENT'
readErrorIsExpected(code) == code = "ENOENT"

\* existingContent ? parse(existingContent) : {}
configOf(existing) ==
    IF existing.exists /\ existing.lines # <<>> THEN parse(existing.lines) ELSE <<>>

\* Variant: the token is put into a fresh object.
assignToken_fresh(config, token) == <<[key |-> TokenKey, value |-> token]>>

\* config['//registry.npmjs.org/:_authToken'] = token
assignToken(config, token) == Put(config, TokenKey, token)

\* writeNpmToken has not been called.
NpmIdle ==
    /\ npmPc = "idle"
    /\ npmToken = ""
    /\ npmRead = "none"
    /\ npmExisting = NoFile
    /\ npmConfig = <<>>
    /\ npmLog = <<>>

\* writeNpmToken(token) is called and awaits fs.readFile.
WriteNpmTokenCall ==
    /\ npmPc = "idle"
    /\ \E token \in NpmTokens : npmToken' = token
    /\ npmPc' = "reading"
    /\ npmLog' = Append(npmLog, Ev("readFile", ".npmrc", 0))
    /\ UNCHANGED <<npmrc, npmRead, npmExisting, npmConfig>>
    /\ UNCHANGED <<authVars, pollVars, dlVars, clVars, runVars>>

\* fs.readFile settles: a missing file reads as null, any other error is
\* raised again; otherwise the object is built, the token is put into it and
\* fs.writeFile is awaited.
NpmReadDone ==
    /\ npmPc = "reading"
    /\ \E r \in ReadOutcomes :
        /\ (r = "ok") => npmrc.exists
        /\ (r = "ENOENT") => ~npmrc.exists
        /\ npmRead' = r
        /\ IF r # "ok" /\ ~readErrorIsExpected(r)
           THEN /\ npmPc' = "thrown"
                /\ UNCHANGED <<npmExisting, npmConfig, npmLog>>
           ELSE /\ npmExisting' = (IF r # "ok" THEN NoFile ELSE npmrc)
                /\ npmConfig' = assignToken(configOf(npmExisting'), npmToken)
                /\ npmLog' = Append(npmLog, Ev("writeFile", ".npmrc", 0))
                /\ npmPc' = "writing"
    /\ UNCHANGED <<npmrc, npmToken>>
    /\ UNCHANGED <<authVars, pollVars, dlVars, clVars, runVars>>

\* fs.writeFile settles: the file holds the written text, or the rejection
\* leaves writeNpmToken.
NpmWriteDone ==
    /\ npmPc = "writing"
    /\ \E ok \in BOOLEAN :
        IF ok
        THEN /\ npmrc' = File(TRUE, stringify(npmConfig))
             /\ npmPc' = "done"
        ELSE /\ npmPc' = "thrown"
             /\ UNCHANGED npmrc
    /\ UNCHANGED <<npmToken, npmRead, npmExisting, npmConfig, npmLog>>
    /\ UNCHANGED <<authVars, pollVars, dlVars, clVars, runVars>>

----------------------------------------------------------------------------
(* run: the orchestrator of index.ts *)

\* run() has not been called.
RunIdle ==
    /\ runPc = "idle"
    /\ sigint = "none"
    /\ skipInstaller = FALSE
    /\ channel = "stable"
    /\ runSessionId = ""
    /\ runVerified = ""
    /\ installerPath = <<>>
    /\ runPending = "none"
    /\ runLog = <<>>

\* run(args) has been called: the SIGINT handler is set, the arguments are
\* parsed, the banner is printed, checkSystemRequirements is awaited.
RunCalled(skip, ch) ==
    /\ runPc = "requirements"
    /\ sigint = "none"
    /\ skipInstaller = skip
    /\ channel = ch
    /\ runSessionId = ""
    /\ runVerified = ""
    /\ installerPath = <<>>
    /\ runPending = "none"
    /\ runLog = <<>>

\* startAuthFlow(email) is called with its default deps (maxRetries 3).
AuthCall ==
    /\ maxRetries' = 3
    /\ attempt' = 1
    /\ lastError' = NoError
    /\ authPc' = "loop"
    /\ authResps' = <<>>
    /\ authLog' = <<>>

\* pollForVerification(sessionId) is called with its default deps (interval
\* 3000, the timeout in the unit of the model's clock); it reads the clock
\* once, for startTime.
PollCall(sessionId) ==
    /\ pollSession' = sessionId
    /\ pollIntervalMs' = 3000
    /\ pollTimeoutMs' \in {t \in PollTimeouts : t > 0}
    /\ UNCHANGED clock
    /\ startTime' = clock
    /\ consecutiveErrors' = 0
    /\ hasShownNetworkWarning' = FALSE
    /\ previousStatus' = "null"
    /\ pollPc' = "loop"
    /\ pollResp' = NoPollResp
    /\ pollLog' = <<>>

\* What the synchronous checks of checkSystemRequirements can come to: all
\* tools are there (or the check is skipped), Node or Git is missing, or
\* only the Fly CLI is missing.
RequirementOutcomes == {"met", "missing", "flyMissing"}

\* The listener setupCleanExit registered runs: it prints its line and
\* leaves the process with 0; what was in flight is gone with the process.
SigintListener ==
    /\ sigint' = "handled"
    /\ runPc' = "exited"
    /\ runLog' = runLog \o <<Ev("log", "Authentication cancelled.", 0),
                              Ev("exit", "", 0)>>

\* Variant: the listener prints its line and does not leave the process.
RunInterrupt_logOnly ==
    /\ sigint = "none"
    /\ \/ runPc \in {"prompt", "flyPrompt", "import", "install"}
       \/ runPc = "auth" /\ authPc \in {"fetching", "sleeping"}
       \/ runPc = "poll" /\ pollPc \in {"fetching", "sleeping"}
       \/ runPc = "download" /\ dlPc = "fetching"
    /\ sigint' = "handled"
    /\ runLog' = Append(runLog, Ev("log", "Authentication cancelled.", 0))
    /\ UNCHANGED <<runPc, skipInstaller, channel, runSessionId, runVerified,
                   installerPath, runPending>>
    /\ UNCHANGED <<authVars, pollVars, dlVars, clVars, npmVars>>

\* A SIGINT arrives while run() waits at an await the event loop settles (a
\* prompt, a request, a sleep, the download, the import, install()): the
\* listener runs at once.
RunInterrupt ==
    /\ sigint = "none"
    /\ \/ runPc \in {"prompt", "flyPrompt", "import", "install"}
       \/ runPc = "auth" /\ authPc \in {"fetching", "sleeping"}
       \/ runPc = "poll" /\ pollPc \in {"fetching", "sleeping"}
       \/ runPc = "download" /\ dlPc = "fetching"
    /\ SigintListener
    /\ authPc' = (IF authPc \in {"fetching", "sleeping"} THEN "killed" ELSE authPc)
    /\ pollPc' = (IF pollPc \in {"fetching", "sleeping"} THEN "killed" ELSE pollPc)
    /\ dlPc' = (IF dlPc = "fetching" THEN "killed" ELSE dlPc)
    /\ UNCHANGED <<skipInstaller, channel, runSessionId, runVerified, installerPath,
                   runPending>>
    /\ UNCHANGED <<maxRetries, attempt, lastError, authResps, authLog>>
    /\ UNCHANGED <<pollIntervalMs, pollTimeoutMs, clock, startTime, consecutiveErrors,
                   hasShownNetworkWarning, previousStatus, pollResp, pollLog,
                   pollSession>>
    /\ UNCHANGED <<dlCalls, dlResp, dlResult, dlLog, dateNow, tmpDirs, tmpFiles>>
    /\ UNCHANGED <<clVars, npmVars>>

\* A SIGINT arrives while synchronous code runs (the spawnSync checks of
\* checkSystemRequirements, the execSync of installFlyCli): the listener
\* can only run once the code yields to the event loop.
RunInterruptDeferred ==
    /\ sigint = "none"
    /\ runPc \in {"requirements", "flyInstall"}
    /\ sigint' = "deferred"
    /\ UNCHANGED <<runPc, skipInstaller, channel, runSessionId, runVerified,
                   installerPath, runPending, runLog>>
    /\ UNCHANGED <<authVars, pollVars, dlVars, clVars, npmVars>>

\* The synchronous checks of checkSystemRequirements are through: with a
\* tool missing the process is left with 1; otherwise run() comes to an
\* await (promptEmail, or promptYesNo when only the Fly CLI is missing),
\* where a deferred SIGINT listener runs.
RunRequirementsDone ==
    /\ runPc = "requirements"
    /\ \E o \in RequirementOutcomes :
        IF o = "missing"
        THEN /\ runPc' = "exited"
             /\ runLog' = Append(runLog, Ev("exit", "", 1))
             /\ UNCHANGED sigint
        ELSE IF sigint = "deferred"
        THEN SigintListener
        ELSE /\ runPc' = (IF o = "met" THEN "prompt" ELSE "flyPrompt")
             /\ UNCHANGED <<runLog, sigint>>
    /\ UNCHANGED <<skipInstaller, channel, runSessionId, runVerified, installerPath,
                   runPending>>
    /\ UNCHANGED <<authVars, pollVars, dlVars, clVars, npmVars>>

\* promptYesNo resolves: a refusal leaves the process with 1, a yes runs
\* installFlyCli up to its execSync.
RunFlyAnswered ==
    /\ runPc = "flyPrompt"
    /\ \E yes \in BOOLEAN :
        IF yes
        THEN /\ runPc' = "flyInstall"
             /\ runLog' = Append(runLog, Ev("log", "Installing Fly CLI...", 0))
        ELSE /\ runPc' = "exited"
             /\ runLog' = Append(runLog, Ev("exit", "", 1))
    /\ UNCHANGED <<sigint, skipInstaller, channel, runSessionId, runVerified,
                   installerPath, runPending>>
    /\ UNCHANGED <<authVars, pollVars, dlVars, clVars, npmVars>>

\* execSync returns or raises: installFlyCli leaves the process with 0
\* after a successful install and with 1 after a failed one, without
\* yielding to the event loop in between.
RunFlyInstallDone ==
    /\ runPc = "flyInstall"
    /\ \E ok \in BOOLEAN :
        runLog' = runLog \o
            (IF ok
             THEN <<Ev("log", "Fly CLI installed successfully!", 0), Ev("exit", "", 0)>>
             ELSE <<Ev("log", "Fly CLI installation failed.", 0), Ev("exit", "", 1)>>)
    /\ runPc' = "exited"
    /\ UNCHANGED <<sigint, skipInstaller, channel, runSessionId, runVerified,
                   installerPath, runPending>>
    /\ UNCHANGED <<authVars, pollVars, dlVars, clVars, npmVars>>

\* promptEmail resolves (it asks again by itself until the answer is an
\* email address); startAuthFlow(email) is called.
RunEmailEntered ==
    /\ runPc = "prompt"
    /\ runPc' = "auth"
    /\ runLog' = Append(runLog, Ev("log", "Starting authentication", 0))
    /\ AuthCall
    /\ UNCHANGED <<sigint, skipInstaller, channel, runSessionId, runVerified, installerPath,
                   runPending>>
    /\ UNCHANGED <<pollVars, dlVars, clVars, npmVars>>

\* startAuthFlow has returned: the value is kept as sessionId and
\* pollForVerification(sessionId) is called.
RunAuthReturned ==
    /\ runPc = "auth"
    /\ authPc = "returned"
    /\ runSessionId' = Last(authLog).s
    /\ runLog' = Append(runLog, Ev("log", "Check your email for a verification link.", 0))
    /\ PollCall(Last(authLog).s)
    /\ runPc' = "poll"
    /\ UNCHANGED <<sigint, skipInstaller, channel, runVerified, installerPath, runPending>>
    /\ UNCHANGED <<authVars, dlVars, clVars, npmVars>>

\* The first line downloadInstallerPackage writes to console.error for a
\* result that is not success.
downloadErrorHeadline(type) ==
    IF type = "auth_error" THEN "Error: Authentication failed."
    ELSE IF type = "not_found" THEN "Error: No installer package available."
    ELSE IF type = "checksum_mismatch" THEN "Error: Package integrity check failed."
    ELSE "Error: Failed to download installer package."

\* Variant: the branch for a checksum mismatch leaves the process with 0.
downloadErrorExit_mismatchZero(type) == IF type = "checksum_mismatch" THEN 0 ELSE 1

\* The code downloadInstallerPackage passes to process.exit for a result
\* that is not success: every branch passes 1.
downloadErrorExit(type) ==
    IF type = "auth_error" THEN 1
    ELSE IF type = "not_found" THEN 1
    ELSE IF type = "checksum_mismatch" THEN 1
    ELSE 1

\* Variant: the code after the await of pollForVerification also runs when
\* the poller has called exit.
RunPollReturned_afterExit ==
    /\ runPc = "poll"
    /\ pollPc \in {"returned", "exited"}
    /\ runVerified' = Last(pollLog).s
    /\ IF skipInstaller
       THEN /\ runLog' = Append(runLog, Ev("log", "Authentication successful!", 0))
            /\ CleanupInstaller(<<>>, TRUE)
            /\ runPc' = "done"
       ELSE /\ runLog' = Append(runLog, Ev("log", "Authentication successful!", 0))
            /\ DownloadCallWith(Last(pollLog).s, channel)
            /\ runPc' = "download"
            /\ UNCHANGED clVars
            /\ UNCHANGED npmVars
    /\ UNCHANGED <<sigint, skipInstaller, channel, runSessionId, installerPath, runPending>>
    /\ UNCHANGED <<authVars, pollVars>>

\* pollForVerification has returned: the value is the sessionId of run().
\* downloadInstallerPackage either skips the download (then runInstaller
\* skips too, cleanupInstaller('') returns at once and run() is through) or
\* calls downloadInstaller(sessionId, channel).
RunPollReturned ==
    /\ runPc = "poll"
    /\ pollPc = "returned"
    /\ runVerified' = Last(pollLog).s
    /\ IF skipInstaller
       THEN /\ runLog' = runLog \o
                   <<Ev("log", "Authentication successful!", 0),
                     Ev("log", "installer download skipped", 0),
                     Ev("log", "installer skipped", 0)>>
            /\ CleanupInstaller(<<>>, TRUE)
            /\ runPc' = "done"
       ELSE /\ runLog' = runLog \o
                   <<Ev("log", "Authentication successful!", 0),
                     Ev("log", "Downloading LaunchFast installer package...", 0)>>
            /\ DownloadCallWith(Last(pollLog).s, channel)
            /\ runPc' = "download"
            /\ UNCHANGED clVars
            /\ UNCHANGED npmVars
    /\ UNCHANGED <<sigint, skipInstaller, channel, runSessionId, installerPath, runPending>>
    /\ UNCHANGED <<authVars, pollVars>>

\* Variant: the result of downloadInstaller is taken for a success whatever
\* its kind.
RunDownloadReturned_anyResult ==
    /\ runPc = "download"
    /\ dlPc = "done"
    /\ installerPath' = dlResult.installerPath
    /\ runLog' = Append(runLog, Ev("import", "dist/index.js", 0))
    /\ runPc' = "import"
    /\ UNCHANGED <<sigint, skipInstaller, channel, runSessionId, runVerified, runPending>>
    /\ UNCHANGED <<authVars, pollVars, dlVars, clVars, npmVars>>

\* downloadInstaller has returned: on success runInstaller awaits the
\* import of the package's entry point; otherwise the process is left with 1.
RunDownloadReturned ==
    /\ runPc = "download"
    /\ dlPc = "done"
    /\ IF dlResult.type = "success"
       THEN /\ installerPath' = dlResult.installerPath
            /\ runLog' = runLog \o
                   <<Ev("log", "Downloaded installer v" \o dlResult.version, 0),
                     Ev("import", "dist/index.js", 0)>>
            /\ runPc' = "import"
       ELSE /\ runLog' = runLog \o
                   <<Ev("error", downloadErrorHeadline(dlResult.type), 0),
                     Ev("exit", "", downloadErrorExit(dlResult.type))>>
            /\ runPc' = "exited"
            /\ UNCHANGED installerPath
    /\ UNCHANGED <<sigint, skipInstaller, channel, runSessionId, runVerified, runPending>>
    /\ UNCHANGED <<authVars, pollVars, dlVars, clVars, npmVars>>

\* What the dynamic import can come to.
ImportOutcomes == {"loaded", "ERR_MODULE_NOT_FOUND", "other"}

\* The import settles: install() is called; or the module was not found and
\* the process is left with 1; or the error is thrown on, into the finally
\* block of run(), which awaits cleanupInstaller.
RunImportDone ==
    /\ runPc = "import"
    /\ \E o \in ImportOutcomes :
        IF o = "loaded"
        THEN /\ runPc' = "install"
             /\ runLog' = Append(runLog, Ev("install", "", 0))
             /\ UNCHANGED runPending
        ELSE IF o = "ERR_MODULE_NOT_FOUND"
        THEN /\ runPc' = "exited"
             /\ runLog' = runLog \o
                    <<Ev("error", "Error: Could not load installer package.", 0),
                      Ev("exit", "", 1)>>
             /\ UNCHANGED runPending
        ELSE /\ runPc' = "cleanup"
             /\ runPending' = "import error"
             /\ UNCHANGED runLog
    /\ UNCHANGED <<sigint, skipInstaller, channel, runSessionId, runVerified, installerPath>>
    /\ UNCHANGED <<authVars, pollVars, dlVars, clVars, npmVars>>

\* install() settles; either way the finally block awaits cleanupInstaller.
RunInstallDone ==
    /\ runPc = "install"
    /\ \E ok \in BOOLEAN :
        runPending' = (IF ok THEN "none" ELSE "install error")
    /\ runPc' = "cleanup"
    /\ UNCHANGED <<sigint, skipInstaller, channel, runSessionId, runVerified, installerPath,
                   runLog>>
    /\ UNCHANGED <<authVars, pollVars, dlVars, clVars, npmVars>>

\* cleanupInstaller(installerPath) runs in the finally block; after it
\* run() is through, or the pending exception leaves run().  An exception
\* of the awaited cleanupInstaller itself would leave run() instead.
RunCleanup ==
    /\ runPc = "cleanup"
    /\ \E ok \in BOOLEAN : CleanupInstaller(installerPath, ok)
    /\ IF clRm'.raised
       THEN /\ runPc' = "thrown"
            /\ runLog' = Append(runLog, Ev("throw", "rm error", 0))
       ELSE IF runPending = "none"
       THEN /\ runPc' = "done"
            /\ UNCHANGED runLog
       ELSE /\ runPc' = "thrown"
            /\ runLog' = Append(runLog, Ev("throw", runPending, 0))
    /\ UNCHANGED <<sigint, skipInstaller, channel, runSessionId, runVerified, installerPath,
                   runPending>>

\* The servers and the machine of a run: of every kind of outcome one.
RunAuthOutcomes ==
    {r \in AuthFetchOutcomes :
        \/ r.threw
        \/ r.status = 403 /\ r.body.json = "object" /\ r.body.sessionId = Absent
                          /\ r.body.error = Absent
        \/ r.status = 200 /\ r.body.json = "object" /\ r.body.error = Absent
                          /\ r.body.sessionId \in {Absent, "S1", "s 2"}}

RunPollOutcomes ==
    {r \in PollFetchOutcomes :
        /\ ~r.threw
        /\ r.status = 200 /\ r.body.json = "object" /\ r.body.session = Absent
        /\ r.body.status \in {"pending", "expired", "verified"}}

RunAuthResponse == AuthResponse /\ Last(authResps') \in RunAuthOutcomes

RunPollResponse == PollResponse /\ pollResp' \in RunPollOutcomes

RunDownloadResponse == DownloadResponse /\ dlResp'.version # Absent

----------------------------------------------------------------------------
(* Specifications: one per operation, the other operations not called *)

InitAuth ==
    /\ \E n \in -1..MaxRetriesBound : AuthCalled(n)
    /\ PollIdle
    /\ DownloadIdle
    /\ CleanupIdle
    /\ NpmIdle
    /\ npmrc = NoFile
    /\ RunIdle

NextAuth == AuthLoop \/ AuthResponse \/ AuthSleepDone

SpecAuth == InitAuth /\ [][NextAuth]_vars

\* startAuthFlow with its awaits settling: every fetch settles and every
\* backoff sleep resolves, after which the event loop resumes the function.
SpecAuthFair == SpecAuth /\ WF_vars(NextAuth)

InitPoll ==
    /\ AuthIdle
    /\ \E i \in PollIntervals, t \in PollTimeouts : PollCalled("S1", i, t)
    /\ DownloadIdle
    /\ CleanupIdle
    /\ NpmIdle
    /\ npmrc = NoFile
    /\ RunIdle

NextPoll == PollLoop \/ PollResponse \/ PollSleepDone

SpecPoll == InitPoll /\ [][NextPoll]_vars

\* Timeouts long enough for the error counter to pass the threshold of the
\* warning while the clock ticks.
PollTickingTimeouts == {0, 2, 4}

InitPollTicking ==
    /\ AuthIdle
    /\ \E i \in PollIntervals, t \in PollTickingTimeouts : PollCalled("S1", i, t)
    /\ DownloadIdle
    /\ CleanupIdle
    /\ NpmIdle
    /\ npmrc = NoFile
    /\ RunIdle

\* The loop condition with an injected clock that shows a later time at
\* every check than at the check before.
PollLoopTicking ==
    /\ PollLoop
    /\ Count(pollLog, "fetch") >= 1 => clock' > clock

NextPollTicking == PollLoopTicking \/ PollResponse \/ PollSleepDone

\* pollForVerification with a ticking clock and with its awaits settling:
\* every fetch settles and every sleep resolves, after which the event loop
\* resumes the function.
SpecPollTicking ==
    InitPollTicking /\ [][NextPollTicking]_vars /\ WF_vars(NextPollTicking)

InitDownload ==
    /\ AuthIdle
    /\ PollIdle
    /\ DownloadIdle
    /\ CleanupIdle
    /\ NpmIdle
    /\ npmrc = NoFile
    /\ RunIdle

NextDownload == DownloadCall \/ DownloadResponse

SpecDownload == InitDownload /\ [][NextDownload]_vars

\* downloadInstaller and cleanupInstaller, called in any order
InitCleanup ==
    /\ AuthIdle
    /\ PollIdle
    /\ DownloadIdle
    /\ CleanupIdle
    /\ NpmIdle
    /\ npmrc = NoFile
    /\ RunIdle

\* A download whose response passed the checksum check, so that the call
\* went on to the filesystem; the downloads come before the cleanups.
DownloadToDisk ==
    /\ clCalls = 0
    /\ DownloadResponse
    /\ \E i \in 1..Len(dlLog') : dlLog'[i].e = "mkdir"

NextCleanup == DownloadCall \/ DownloadToDisk \/ CleanupCall

SpecCleanup == InitCleanup /\ [][NextCleanup]_vars

\* writeNpmToken, called once on any credential store
InitNpm ==
    /\ AuthIdle
    /\ PollIdle
    /\ DownloadIdle
    /\ CleanupIdle
    /\ NpmIdle
    /\ npmrc \in NpmrcFiles
    /\ RunIdle

NextNpm == WriteNpmTokenCall \/ NpmReadDone \/ NpmWriteDone

SpecNpm == InitNpm /\ [][NextNpm]_vars

\* One run of the CLI: run() is called in a fresh home directory.
InitRun ==
    /\ AuthIdle
    /\ PollIdle
    /\ DownloadIdle
    /\ CleanupIdle
    /\ NpmIdle
    /\ npmrc = NoFile
    /\ \E skip \in BOOLEAN, ch \in {"stable", "preflight"} : RunCalled(skip, ch)

NextRun ==
    \/ RunInterrupt
    \/ RunInterruptDeferred
    \/ RunRequirementsDone
    \/ RunFlyAnswered
    \/ RunFlyInstallDone
    \/ RunEmailEntered
    \/ AuthLoop
    \/ RunAuthResponse
    \/ AuthSleepDone
    \/ RunAuthReturned
    \/ PollLoop
    \/ RunPollResponse
    \/ PollSleepDone
    \/ RunPollReturned
    \/ RunDownloadResponse
    \/ RunDownloadReturned
    \/ RunImportDone
    \/ RunInstallDone
    \/ RunCleanup

SpecRun == InitRun /\ [][NextRun]_vars

----------------------------------------------------------------------------
(* Properties of startAuthFlow *)

\* The calls to the injected primitives fetch, sleep and exit, in order.
AuthCalls == SelectSeq(authLog, LAMBDA ev : ev.e \in {"fetch", "sleep", "exit"})

AuthSleeps == SelectSeq(authLog, LAMBDA ev : ev.e = "sleep")

\* The classification of the i-th settled request.
AuthResultType(i) == attemptAuthRequest(authResps[i]).type

AuthFirstIs403 ==
    /\ Len(authResps) >= 1
    /\ ~authResps[1].threw
    /\ authResps[1].status = 403

\* C2 as stated: whenever the auth-start response has status 403, whatever
\* its body, startAuthFlow has issued exactly one request, never sleeps and
\* ends in no other way than exit(1).
C2_Forbidden403AnyBody ==
    AuthFirstIs403 =>
        /\ Count(authLog, "fetch") = 1
        /\ Count(authLog, "sleep") = 0
        /\ authPc \notin {"returned", "thrown"}
        /\ (authPc = "exited" => Last(authLog) = Ev("exit", "", 1))

\* C2 amended: when the auth-start response has status 403 and a JSON body
\* that satisfies the response schema (with or without an error field),
\* startAuthFlow has issued exactly one request, never sleeps, and has
\* called exit(1) as its last act.
C2_Forbidden403SchemaValid ==
    (AuthFirstIs403 /\ AuthStartResponseSchema(authResps[1].body)) =>
        /\ Len(authResps) = 1
        /\ Count(authLog, "fetch") = 1
        /\ Count(authLog, "sleep") = 0
        /\ authPc = "exited"
        /\ Count(authLog, "exit") = 1
        /\ Last(authLog) = Ev("exit", "", 1)

C2_Witness ==
    /\ AuthFirstIs403
    /\ AuthStartResponseSchema(authResps[1].body)
    /\ authResps[1].body.error = Absent
    /\ authPc = "exited"
    /\ maxRetries = 3

\* All maxRetries requests have settled and each one failed retryably.
AuthAllRetryableFailures ==
    /\ maxRetries >= 1
    /\ Len(authResps) = maxRetries
    /\ \A i \in 1..maxRetries : AuthResultType(i) \in {"transport", "server_error"}

\* C3: after N = maxRetries >= 1 retryable failures (transport or
\* server_error in any mix) startAuthFlow has issued exactly N requests and
\* N-1 sleeps, request and sleep alternate starting and ending with a
\* request, the delays are 2000, 4000, ... (each twice the one before), and
\* the only thing that follows the last request is exit(1).
C3_RetryBackoffSchedule ==
    AuthAllRetryableFailures =>
        LET N == maxRetries
            calls == AuthCalls IN
        /\ Count(authLog, "fetch") = N
        /\ Count(authLog, "sleep") = N - 1
        /\ \A i \in 1..N : calls[2 * i - 1].e = "fetch"
        /\ \A i \in 1..(N - 1) : calls[2 * i].e = "sleep"
        /\ N >= 2 => calls[2].n = 2000
        /\ \A i \in 2..(N - 1) : calls[2 * i].n = 2 * calls[2 * i - 2].n
        /\ \/ authPc = "loop" /\ attempt = N + 1 /\ Len(calls) = 2 * N - 1
           \/ /\ authPc = "exited"
              /\ Len(calls) = 2 * N
              /\ calls[2 * N] = Ev("exit", "", 1)
              /\ Last(authLog) = Ev("exit", "", 1)

C3_Witness ==
    /\ AuthAllRetryableFailures
    /\ maxRetries = 3
    /\ AuthResultType(1) = "transport"
    /\ AuthResultType(2) = "server_error"
    /\ authPc = "exited"
    /\ AuthSleeps = <<Ev("sleep", "", 2000), Ev("sleep", "", 4000)>>

\* C4: an attempt classified protocol_violation, on whichever attempt it
\* occurs, is the last request of the run: startAuthFlow has thrown, the
\* throw is the last entry of the log (no request and no sleep after it),
\* and exit was never called.
C4_ProtocolViolationIsFatal ==
    \A k \in 1..Len(authResps) :
        AuthResultType(k) = "protocol_violation" =>
            /\ k = Len(authResps)
            /\ authPc = "thrown"
            /\ Count(authLog, "fetch") = k
            /\ Count(authLog, "sleep") = k - 1
            /\ Count(authLog, "exit") = 0
            /\ Last(authLog).e = "throw"
            /\ Count(authLog, "throw") = 1

C4_Witness ==
    /\ Len(authResps) = 3
    /\ AuthResultType(3) = "protocol_violation"
    /\ ResponseOk(authResps[3].status)
    /\ authResps[3].body.json = "object"
    /\ authResps[3].body.sessionId = Absent
    /\ authPc = "thrown"

----------------------------------------------------------------------------
(* Properties of pollForVerification *)

IsResult(ev) == ev.e = "result"

TransientType(t) == t \in {"boundary_error", "http_error"}

\* The classified outcomes of the status requests settled so far, in order.
PollResults == SelectSeq(pollLog, IsResult)

\* Positions of the log after position i.
After(log, i) == (i + 1)..Len(log)

\* The most recent status response is 2xx with status 'verified' and no
\* token payload (the token field is missing or empty).
PollVerifiedWithoutToken ==
    /\ pollPc \notin {"idle", "fetching"}
    /\ Count(pollLog, "fetch") >= 1
    /\ ~pollResp.threw
    /\ ResponseOk(pollResp.status)
    /\ pollResp.body.json = "object"
    /\ pollResp.body.status = "verified"
    /\ ~Truthy(pollResp.body.token)

PollPendingThenVerified ==
    LET R == PollResults IN
    /\ pollPc \notin {"idle", "fetching"}
    /\ Len(R) >= 1
    /\ \A i \in 1..(Len(R) - 1) : R[i].s = "pending"
    /\ ~pollResp.threw
    /\ ResponseOk(pollResp.status)
    /\ pollResp.body.json = "object"
    /\ pollResp.body.status = "verified"
    /\ Truthy(pollResp.body.token)

\* C6: after k pending answers followed by verified with token T the poller
\* has issued exactly k+1 requests and k sleeps, every sleep lasting
\* pollIntervalMs, has returned T as its last act and never called exit.
C6_PendingThenVerified ==
    PollPendingThenVerified =>
        LET k == Len(PollResults) - 1
            calls == SelectSeq(pollLog, LAMBDA ev : ev.e \in {"fetch", "sleep", "return", "exit", "throw"})
        IN
        /\ pollPc = "returned"
        /\ Count(pollLog, "fetch") = k + 1
        /\ Count(pollLog, "sleep") = k
        /\ \A i \in 1..Len(pollLog) : pollLog[i].e = "sleep" => pollLog[i].n = pollIntervalMs
        /\ Len(calls) = 2 * k + 2
        /\ \A i \in 1..(k + 1) : calls[2 * i - 1].e = "fetch"
        /\ \A i \in 1..k : calls[2 * i].e = "sleep"
        /\ calls[2 * k + 2] = Ev("return", pollResp.body.token, 0)
        /\ Last(pollLog) = Ev("return", pollResp.body.token, 0)
        /\ pollResp.body.token = "T1"

C6_Witness ==
    /\ PollPendingThenVerified
    /\ Len(PollResults) = 3
    /\ pollPc = "returned"
    /\ pollIntervalMs = 100
    /\ Last(pollLog) = Ev("return", "T1", 0)

IsUnstableWarning(ev) ==
    /\ ev.e = "log"
    /\ ev.s \in {"Network unstable - retrying...",
                 "Server error (500) - retrying...",
                 "Temporary error - retrying..."}

IsRestored(ev) == ev.e = "log" /\ ev.s = "Connection restored."

\* Length of the streak of consecutive transient results that ends with the
\* last result at or before position i of the log (0 if that result is not
\* transient or there is none).
RECURSIVE StreakAt(_, _)
StreakAt(log, i) ==
    IF i = 0 THEN 0
    ELSE IF ~IsResult(log[i]) THEN StreakAt(log, i - 1)
    ELSE IF TransientType(log[i].s) THEN 1 + StreakAt(log, i - 1)
    ELSE 0

\* C7: the 'unstable' warning is printed right after a transient result
\* exactly when that result is the third of its streak (so once per streak
\* that reaches 3, never for a shorter one, never again at the 4th, 5th...);
\* 'Connection restored.' is printed right after a result exactly when that
\* result is a non-transient classification ending a streak of length >= 3;
\* and neither message is printed anywhere else.
C7_WarningOncePerStreak ==
    \A i \in 1..Len(pollLog) :
        /\ IsResult(pollLog[i]) /\ pollLog[i].s # "type_error" =>
              /\ i < Len(pollLog)
              /\ IsUnstableWarning(pollLog[i + 1]) <=>
                    (TransientType(pollLog[i].s) /\ StreakAt(pollLog, i) = 3)
              /\ IsRestored(pollLog[i + 1]) <=>
                    (~TransientType(pollLog[i].s) /\ StreakAt(pollLog, i - 1) >= 3)
        /\ (IsUnstableWarning(pollLog[i]) \/ IsRestored(pollLog[i])) =>
              i > 1 /\ IsResult(pollLog[i - 1])

C7_Witness ==
    /\ Len(PollResults) = 4
    /\ \A i \in 1..3 : TransientType(PollResults[i].s)
    /\ PollResults[4].s = "pending"
    /\ Cardinality({i \in 1..Len(pollLog) : IsUnstableWarning(pollLog[i])}) = 1
    /\ Cardinality({i \in 1..Len(pollLog) : IsRestored(pollLog[i])}) = 1

\* C8: a step of the loop check issues a status request only if
\* now() - startTime < pollTimeoutMs holds for the clock value read in that
\* step, and no request is issued by any other step; a loop check at which
\* it does not hold (the very first one included) appends the timeout
\* message and exit(1) and nothing else; and after it the poller takes no
\* further step (no request, no sleep).
C8_TimeoutGuardsEveryRequest ==
    [][ /\ Count(pollLog', "fetch") > Count(pollLog, "fetch") =>
              /\ pollPc = "loop"
              /\ clock' - startTime < pollTimeoutMs
              /\ Count(pollLog', "fetch") = Count(pollLog, "fetch") + 1
        /\ (pollPc = "loop" /\ ~(clock' - startTime < pollTimeoutMs)) =>
              /\ pollPc' = "exited"
              /\ pollLog' = pollLog \o <<Ev("error", "Verification timed out.", 0),
                                         Ev("exit", "", 1)>>
        /\ pollPc # "exited"
      ]_vars

C8_Witness ==
    /\ pollTimeoutMs = 2
    /\ Count(pollLog, "fetch") = 2
    /\ clock - startTime = 2
    /\ pollPc = "exited"
    /\ Last(pollLog) = Ev("exit", "", 1)

C8_WitnessZeroTimeout ==
    /\ pollTimeoutMs = 0
    /\ Count(pollLog, "fetch") = 0
    /\ pollPc = "exited"

\* The most recent status response is 2xx with status 'expired'.
PollExpiredResponse ==
    /\ pollPc \notin {"idle", "fetching"}
    /\ Count(pollLog, "fetch") >= 1
    /\ ~pollResp.threw
    /\ ResponseOk(pollResp.status)
    /\ pollResp.body.json = "object"
    /\ pollResp.body.status = "expired"

\* Position in the log of the last classified result (0 if there is none).
LastResultAt(log) ==
    IF \E i \in 1..Len(log) : IsResult(log[i])
    THEN CHOOSE i \in 1..Len(log) :
            IsResult(log[i]) /\ \A j \in After(log, i) : ~IsResult(log[j])
    ELSE 0

\* C9: a 2xx status response with status 'expired', whatever results came
\* before it, is the last request of the run: the poller has printed the
\* session-expired message, has called exit(1) once, as its last act, and
\* the log holds no request and no sleep after that response.
C9_ExpiredExits ==
    PollExpiredResponse =>
        LET i == LastResultAt(pollLog) IN
        /\ pollPc = "exited"
        /\ i > 0 /\ pollLog[i].s = "expired"
        /\ Count(pollLog, "fetch") = Len(PollResults)
        /\ \A j \in After(pollLog, i) : pollLog[j].e \notin {"fetch", "sleep", "return", "throw"}
        /\ \E j \in After(pollLog, i) : pollLog[j] = Ev("error", "Verification session expired.", 0)
        /\ Count(pollLog, "exit") = 1
        /\ Last(pollLog) = Ev("exit", "", 1)

C9_Witness ==
    /\ PollExpiredResponse
    /\ Len(PollResults) = 3
    /\ PollResults[1].s = "pending"
    /\ PollResults[2].s = "http_error"
    /\ PollResults[3].s = "expired"
    /\ pollPc = "exited"

----------------------------------------------------------------------------
(* Properties of downloadInstaller *)

DlLogHas(e) == \E i \in 1..Len(dlLog) : dlLog[i].e = e

\* The call has returned checksum_mismatch with both hashes and has made no
\* filesystem call at all.
DlBlockedAsMismatch ==
    /\ dlResult.type = "checksum_mismatch"
    /\ dlResult.expected = dlResp.checksum
    /\ dlResult.actual = Sha256(dlResp.body)
    /\ dlResult.installerPath = <<>>
    /\ ~DlLogHas("mkdir")
    /\ ~DlLogHas("writeFile")
    /\ ~DlLogHas("extract")
    /\ dlCalls = 1 => (tmpDirs = {} /\ tmpFiles = {})

\* A completed call whose response was 2xx, carried an X-Checksum-SHA256
\* header and a readable body, with the body's SHA-256 unequal the header.
DlChecksumUnequal ==
    /\ dlPc = "done"
    /\ ~dlResp.threw
    /\ ResponseOk(dlResp.status)
    /\ dlResp.checksum # Absent
    /\ dlResp.body # Unreadable
    /\ Sha256(dlResp.body) # dlResp.checksum

\* C1 as stated: every 2xx response whose body's SHA-256 differs from the
\* X-Checksum-SHA256 header value gives checksum_mismatch with the expected
\* and the actual hash, and no scratch directory, archive file or extraction.
C1_MismatchAnyHeaderValue == DlChecksumUnequal => DlBlockedAsMismatch

\* C1 amended: the same for every 2xx response whose X-Checksum-SHA256 header
\* value is not empty (an empty value is handled as a missing header).
C1_MismatchBlocksExtraction ==
    (DlChecksumUnequal /\ dlResp.checksum # "") => DlBlockedAsMismatch

C1_Witness ==
    /\ DlChecksumUnequal
    /\ dlResp.checksum = "H1"
    /\ dlResp.body = "b1"
    /\ dlResult.type = "checksum_mismatch"
    /\ dlResult.expected = "H1"
    /\ dlResult.actual = "h1"

\* C10: the result kind of a non-2xx response is fixed by its status alone,
\* whatever the body: 403 and 400 give auth_error, 404 gives not_found, any
\* other status gives boundary_error(network) carrying the status.
C10_ErrorKindByStatus ==
    (dlPc = "done" /\ ~dlResp.threw /\ ~ResponseOk(dlResp.status)) =>
        /\ dlResp.status \in {400, 403} => dlResult.type = "auth_error"
        /\ dlResp.status = 404 => dlResult.type = "not_found"
        /\ dlResp.status \notin {400, 403, 404} =>
              /\ dlResult.type = "boundary_error"
              /\ dlResult.errorType = "network"
              /\ dlResult.message = "HTTP " \o ToString(dlResp.status)

DlNoChecksumHeader ==
    /\ dlPc = "done"
    /\ ~dlResp.threw
    /\ ResponseOk(dlResp.status)
    /\ dlResp.checksum = Absent

\* C12: a 2xx response without the X-Checksum-SHA256 header gives
\* boundary_error(parse) after that one request: nothing is requested again,
\* the body is not read, no scratch directory is made, nothing is extracted.
C12_MissingChecksumHeader ==
    DlNoChecksumHeader =>
        /\ dlResult.type = "boundary_error"
        /\ dlResult.errorType = "parse"
        /\ dlLog = <<Ev("fetch", "/resources/installer/download?session=S1&channel=stable", 0)>>

C12_Witness ==
    /\ DlNoChecksumHeader
    /\ dlResp.version = "1.0.0"
    /\ dlResult.type = "boundary_error"
    /\ dlResult.message = "Missing checksum header"
    /\ tmpDirs = {}

\* A 2xx response whose checksum matched, and then a filesystem call failed.
DlFilesystemFailure ==
    /\ dlPc = "done"
    /\ ~dlResp.threw
    /\ ResponseOk(dlResp.status)
    /\ dlResp.checksum \notin {Absent, ""}
    /\ dlResp.body # Unreadable
    /\ Sha256(dlResp.body) = dlResp.checksum
    /\ dlResp.fs \in {"mkdir", "write", "extract"}

\* C13: when making the scratch directory fails, or writing or extracting
\* fails after it was made, the result is boundary_error(parse); in the
\* second case the call asked for the removal of the scratch directory as
\* its last step, the directory is gone when the removal succeeded, and the
\* result is the same when the removal failed.
C13_FilesystemFailureIsParseError ==
    DlFilesystemFailure =>
        /\ dlResult.type = "boundary_error"
        /\ dlResult.errorType = "parse"
        /\ dlResp.fs = "mkdir" => ~DlLogHas("rm")
        /\ dlResp.fs \in {"write", "extract"} =>
              /\ Last(dlLog).e = "rm"
              /\ Count(dlLog, "rm") = 1
              /\ dlResp.rmOk => TempDirOf(dateNow) \notin tmpDirs
              /\ dlResp.rmOk => \A f \in tmpFiles : f[1] # TempDirOf(dateNow)

C13_Witness ==
    /\ DlFilesystemFailure
    /\ dlResp.fs = "extract"
    /\ dlResp.rmOk
    /\ dlResult.message = "Failed to extract package"
    /\ Last(dlLog).e = "rm"
    /\ TempDirOf(dateNow) \notin tmpDirs

----------------------------------------------------------------------------
(* Properties of cleanupInstaller *)

\* A step that is one call of cleanupInstaller.
CleanupStep == clCalls' = clCalls + 1

\* Paths that do not follow the naming of scratch directories: the empty
\* path and paths that hold the scratch marker nowhere.
NonScratchPaths ==
    {<<>>,
     <<Seg("unrelated"), Seg("path")>>,
     <<Seg("home"), Seg("project"), Seg("package")>>}

C15_CleanupUndoesDownload ==
    [][/\ (dlPc = "fetching" /\ dlPc' = "done" /\ dlResult'.type = "success") =>
              /\ dlResult'.installerPath = Append(TempDirOf(dateNow'), Seg("package"))
              /\ TempDirOf(dateNow') \in tmpDirs'
              /\ <<TempDirOf(dateNow'), "package">> \in tmpFiles'
       /\ (CleanupStep /\ dlResult.type = "success"
                       /\ clArg' = dlResult.installerPath) =>
              /\ clRm'.called
              /\ clRm'.target = TempDirOf(dateNow)
              /\ clRm'.ok => /\ tmpDirs' = tmpDirs \ {TempDirOf(dateNow)}
                             /\ tmpFiles' = {f \in tmpFiles : f[1] # TempDirOf(dateNow)}
                             /\ userDirs' = userDirs
              /\ ~clRm'.ok => UNCHANGED <<tmpDirs, tmpFiles, userDirs>>
      ]_vars

C15_Witness ==
    /\ dlCalls = 2
    /\ dlResult.type = "success"
    /\ clCalls = 1
    /\ clArg = dlResult.installerPath
    /\ clRm.called /\ clRm.ok
    /\ Cardinality(tmpDirs) = 1
    /\ TempDirOf(dateNow) \notin tmpDirs
    /\ userDirs = UserDirs

----------------------------------------------------------------------------
(* Properties of writeNpmToken *)

\* What a reader of the credential store finds under a key.
StoreHas(file, key) == file.exists /\ Has(parse(file.lines), key)

StoreValue(file, key) == Get(parse(file.lines), key)

\* C16: when writeNpmToken has returned, every key the store held before
\* other than the token key still has its value, the token key has the new
\* token (also when the store did not exist or held an old token), and
\* fs.writeFile was called exactly once.
C16_TokenWritePreservesOthers ==
    (npmPc = "done") =>
        /\ \A l \in NpmrcLines :
              (l.kind = "entry" /\ l.key # TokenKey /\ StoreHas(npmExisting, l.key)) =>
                  /\ StoreHas(npmrc, l.key)
                  /\ StoreValue(npmrc, l.key) = StoreValue(npmExisting, l.key)
        /\ StoreHas(npmrc, TokenKey)
        /\ StoreValue(npmrc, TokenKey) = npmToken
        /\ Count(npmLog, "writeFile") = 1

C16_Witness ==
    /\ npmPc = "done"
    /\ npmToken = "T1"
    /\ npmExisting.exists
    /\ StoreHas(npmExisting, TokenKey)
    /\ StoreValue(npmExisting, TokenKey) = "old"
    /\ StoreHas(npmExisting, "registry")
    /\ StoreValue(npmExisting, "registry") = "R2"
    /\ StoreValue(npmrc, "registry") = "R2"
    /\ StoreValue(npmrc, TokenKey) = "T1"
    /\ npmrc # npmExisting

----------------------------------------------------------------------------
(* Properties of run *)

\* The process has ended: exit was called, or run() is through, or an
\* exception has left run().
RunExited == authPc = "exited" \/ pollPc = "exited" \/ runPc = "exited"

RunThrown == authPc = "thrown" \/ pollPc = "thrown" \/ runPc = "thrown"

RunEnded == RunExited \/ RunThrown \/ runPc = "done"

\* The code exit was called with; 0 when run() came to its end.
RunExitCode ==
    IF authPc = "exited" THEN Last(authLog).n
    ELSE IF pollPc = "exited" THEN Last(pollLog).n
    ELSE IF runPc = "exited" THEN Last(runLog).n
    ELSE 0

RunLogHas(e) == \E i \in 1..Len(runLog) : runLog[i].e = e

\* The status server answered pending, pending, and then verified with the
\* token T1, each with a 2xx status.
RunPendingPendingVerified ==
    /\ authPc = "returned"
    /\ Count(pollLog, "fetch") = 3
    /\ Len(PollResults) = 3
    /\ PollResults[1].s = "pending"
    /\ PollResults[2].s = "pending"
    /\ PollResults[3].s = "verified"
    /\ ~pollResp.threw /\ ResponseOk(pollResp.status)
    /\ pollResp.body.status = "verified"
    /\ pollResp.body.token = "T1"

\* C17: a run with a valid email in which auth-start returned a session id
\* and the status server answered pending twice and then verified with the
\* token T ends with the credential store holding the token key with the
\* value T and with exit code 0 (the installer being skipped, as in the
\* end-to-end test).
C17_HappyPathStoresToken ==
    (skipInstaller /\ RunPendingPendingVerified /\ RunEnded) =>
        /\ runPc = "done"
        /\ RunExitCode = 0
        /\ StoreHas(npmrc, TokenKey)
        /\ StoreValue(npmrc, TokenKey) = "T1"

\* The latest answer of the status server is expired, with a 2xx status.
RunSessionExpired ==
    /\ runPc # "idle"
    /\ authPc = "returned"
    /\ pollPc \notin {"idle", "fetching"}
    /\ ~pollResp.threw /\ ResponseOk(pollResp.status)
    /\ pollResp.body.json = "object"
    /\ pollResp.body.status = "expired"

\* C18: when auth-start succeeded and the status server answers expired,
\* the process ends with exit code 1, no credential file exists, no download
\* request was made, and the error stream holds the session-expired message.
C18_ExpiredEndsRun ==
    RunSessionExpired =>
        /\ RunExited
        /\ RunExitCode = 1
        /\ runPc = "poll"
        /\ ~npmrc.exists
        /\ dlLog = <<>> /\ dlCalls = 0
        /\ \E i \in 1..Len(pollLog) :
              pollLog[i] = Ev("error", "Verification session expired.", 0)

C18_Witness ==
    /\ RunSessionExpired
    /\ Count(pollLog, "fetch") = 1
    /\ RunExitCode = 1
    /\ runSessionId = "S1"
    /\ ~skipInstaller

\* C19: the steps come in the order auth-start, poll, download, install,
\* each only after every earlier one succeeded: a status request only after
\* startAuthFlow returned a session id, a download request only after the
\* poller returned a value, install() only after downloadInstaller returned
\* success; once a later step has begun no earlier step makes a request, and
\* after a step has failed no later step has made a request or touched the
\* disk.
C19_StepsInOrder ==
    [][/\ (Count(pollLog', "fetch") > 0) =>
              /\ authPc' = "returned"
              /\ Last(authLog').e = "return"
              /\ Last(authLog').s \notin {Absent, NotAString, ""}
              /\ authLog' = authLog
       /\ (dlLog' # <<>>) =>
              /\ authPc' = "returned" /\ authLog' = authLog
              /\ pollPc' = "returned" /\ pollLog' = pollLog
              /\ Last(pollLog').e = "return"
       /\ (RunLogHas("import")' \/ RunLogHas("install")') =>
              /\ authLog' = authLog /\ pollLog' = pollLog /\ dlLog' = dlLog
              /\ dlPc' = "done"
              /\ dlResult'.type = "success"
       /\ (authPc' \in {"exited", "thrown"}) =>
              /\ pollLog' = <<>> /\ dlLog' = <<>>
              /\ ~RunLogHas("install")' /\ tmpDirs' = {}
       /\ (pollPc' \in {"exited", "thrown"}) =>
              /\ dlLog' = <<>>
              /\ ~RunLogHas("install")' /\ tmpDirs' = {}
       /\ (dlPc' = "done" /\ dlResult'.type # "success") =>
              /\ ~RunLogHas("import")'
              /\ ~RunLogHas("install")'
      ]_vars

C19_Witness ==
    /\ runPc = "install"
    /\ RunLogHas("install")
    /\ Len(authResps) = 2
    /\ Count(pollLog, "fetch") = 2
    /\ dlResult.type = "success"

\* What the server reads as the value of a query parameter: %20 and + are
\* both a space.
QueryTexts == {"S1", "s 2", "s%202", "s+2", "T1", ""}

DecodeQuery(text) == IF text \in {"s%202", "s+2"} THEN "s 2" ELSE text

\* C20: every status request and the download request carry, as the value
\* of the session parameter, the sessionId that startAuthFlow returned.
C20_SessionPassedUnchanged ==
    (authPc = "returned") =>
        /\ \A i \in 1..Len(pollLog) :
              pollLog[i].e = "fetch" =>
                  \E q \in QueryTexts :
                      /\ DecodeQuery(q) = Last(authLog).s
                      /\ pollLog[i].s = "/resources/cli-auth/status?session=" \o q
        /\ dlLog # <<>> =>
              \E q \in QueryTexts :
                  /\ DecodeQuery(q) = Last(authLog).s
                  /\ dlLog[1].s = "/resources/installer/download?session=" \o q
                                      \o "&channel=" \o channel

----------------------------------------------------------------------------
(* Further properties of the operations and of run *)

\* The call passed the checksum check and its mkdir succeeded in this step.
DlCreatesScratchDir ==
    /\ dlPc = "fetching"
    /\ dlPc' = "done"
    /\ \E i \in 1..Len(dlLog') : dlLog'[i].e = "mkdir"
    /\ dlResp'.fs # "mkdir"

\* C21: every downloadInstaller call that passes the checksum check creates
\* a scratch directory that did not exist before, so that no directory of an
\* earlier call that has not been cleaned up (one made at the same clock
\* instant included) is shared with it: the directories and entries that
\* were there stay as they were.
C21_ScratchDirIsFresh ==
    [][DlCreatesScratchDir =>
          /\ TempDirOf(dateNow') \notin tmpDirs
          /\ tmpDirs \subseteq tmpDirs'
          /\ tmpFiles \subseteq tmpFiles'
      ]_vars

\* C22: pollForVerification has at most one status request outstanding.  A
\* request is issued only when every earlier request has been classified
\* and, after an earlier request, only when that request's outcome was
\* pending or transient and the one sleep that followed it has completed.
C22_OneRequestAtATime ==
    [][/\ Count(pollLog', "fetch") - Count(pollLog', "result") \in {0, 1}
       /\ Count(pollLog', "fetch") > Count(pollLog, "fetch") =>
              /\ Count(pollLog', "fetch") = Count(pollLog, "fetch") + 1
              /\ Count(pollLog, "fetch") = Count(pollLog, "result")
              /\ pollPc = "loop"
              /\ Count(pollLog, "fetch") > 0 =>
                    /\ Last(pollLog).e = "sleep"
                    /\ Count(pollLog, "sleep") = Count(pollLog, "fetch")
                    /\ PollResults[Len(PollResults)].s
                           \in {"pending", "boundary_error", "http_error"}
      ]_vars

C22_Witness ==
    /\ pollPc = "fetching"
    /\ Count(pollLog, "fetch") = 4
    /\ Len(PollResults) = 3
    /\ PollResults[1].s = "pending"
    /\ PollResults[2].s = "http_error"
    /\ PollResults[3].s = "boundary_error"

\* C24 as stated: once run() has started, a SIGINT arriving at any point
\* ends the process with exit code 0.
C24_InterruptAnywhereExitsZero ==
    (sigint # "none" /\ RunEnded) =>
        /\ runPc = "exited"
        /\ Last(runLog) = Ev("exit", "", 0)

\* run() waits at an await that the event loop settles.
RunWaiting ==
    \/ runPc \in {"prompt", "flyPrompt", "import", "install"}
    \/ runPc = "auth" /\ authPc \in {"fetching", "sleeping"}
    \/ runPc = "poll" /\ pollPc \in {"fetching", "sleeping"}
    \/ runPc = "download" /\ dlPc = "fetching"

\* C24, amended: a SIGINT that arrives while run() waits (at a prompt, an
\* outstanding request, a backoff sleep, a poll sleep, the download, the
\* import or install()) ends the process at once with exit code 0, nothing
\* in flight goes on and no request is issued in that step or after it; a
\* SIGINT that arrives during the synchronous requirement checks or the Fly
\* CLI install is only handled when that code yields, if it yields.
C24_InterruptWhileWaiting ==
    [][/\ (sigint = "none" /\ sigint' # "none" /\ RunWaiting) => sigint' = "handled"
       /\ (sigint # "handled" /\ sigint' = "handled") =>
              /\ runPc' = "exited"
              /\ Last(runLog') = Ev("exit", "", 0)
              /\ RunExitCode' = 0
              /\ authPc' \notin {"loop", "fetching", "sleeping"}
              /\ pollPc' \notin {"loop", "fetching", "sleeping"}
              /\ dlPc' # "fetching"
       /\ (sigint = "handled" \/ sigint' = "handled") =>
              /\ authLog' = authLog
              /\ pollLog' = pollLog
              /\ dlLog' = dlLog
              /\ tmpDirs' = tmpDirs
       /\ sigint = "handled" => runLog' = runLog
      ]_vars

C24_Witness ==
    /\ sigint = "handled"
    /\ runPc = "exited"
    /\ pollPc = "killed"
    /\ Count(pollLog, "fetch") = 2
    /\ Last(pollLog).e = "sleep"
    /\ Last(runLog) = Ev("exit", "", 0)

DlFailureKinds == {"auth_error", "not_found", "checksum_mismatch", "boundary_error"}

C25_InstallErrorPropagates ==
    (runPending = "install error") =>
        /\ RunLogHas("install")
        /\ runPc \in {"cleanup", "thrown"}
        /\ runPc = "cleanup" => clCalls = 0
        /\ runPc = "thrown" =>
              /\ clCalls = 1
              /\ clArg = installerPath
              /\ clArg = dlResult.installerPath
              /\ clRm.called
              /\ Last(runLog) = Ev("throw", "install error", 0)
              /\ Count(runLog, "throw") = 1
              /\ ~RunLogHas("exit")

C25_Witness ==
    /\ runPending = "install error"
    /\ runPc = "thrown"
    /\ clRm.called /\ ~clRm.ok
    /\ Last(runLog) = Ev("throw", "install error", 0)

\* The latest status response is 2xx with status 'verified' and carries its
\* payload X1 in the field named session, with no token field; every
\* response before it was classified pending.
PollVerifiedBySessionField ==
    /\ pollPc \notin {"idle", "fetching"}
    /\ Count(pollLog, "fetch") >= 1
    /\ ~pollResp.threw
    /\ ResponseOk(pollResp.status)
    /\ pollResp.body.json = "object"
    /\ pollResp.body.status = "verified"
    /\ pollResp.body.session = "X1"
    /\ pollResp.body.token = Absent
    /\ \A i \in 1..(Len(PollResults) - 1) : PollResults[i].s = "pending"

\* C26: such a response makes pollForVerification return X1, after k+1
\* requests when k pending responses came before it, without calling exit.
C26_VerifiedSessionFieldReturns ==
    PollVerifiedBySessionField =>
        /\ pollPc = "returned"
        /\ Last(pollLog) = Ev("return", "X1", 0)
        /\ Count(pollLog, "fetch") = Len(PollResults)
        /\ Count(pollLog, "exit") = 0

\* The k-th auth-start request got a response whose body is not valid JSON.
AuthNonJsonAt(k) ==
    /\ k \in 1..Len(authResps)
    /\ ~authResps[k].threw
    /\ authResps[k].body.json = "invalid"

\* C27: an auth-start response whose body is not valid JSON is classified by
\* its status alone.  With a 2xx status it is a protocol violation: the
\* request is the last one and startAuthFlow throws, without a sleep after
\* it and without exit.  With any other status it is a transport failure,
\* retried like a network failure: while attempts remain the backoff sleep
\* of 2^k * 1000 ms follows, and when it was the last attempt the run ends
\* with the transport message and exit(1).
C27_NonJsonBodyByStatus ==
    \A k \in 1..MaxRetriesBound :
        AuthNonJsonAt(k) =>
            IF ResponseOk(authResps[k].status)
            THEN /\ k = Len(authResps)
                 /\ authPc = "thrown"
                 /\ Last(authLog) =
                        Ev("throw", "Protocol violation: Response is not valid JSON", 0)
                 /\ Count(authLog, "fetch") = k
                 /\ Count(authLog, "sleep") = k - 1
                 /\ Count(authLog, "exit") = 0
            ELSE IF k < maxRetries
            THEN /\ Len(AuthSleeps) >= k
                 /\ AuthSleeps[k] = Ev("sleep", "", Pow2(k) * 1000)
                 /\ (k = Len(authResps)) =>
                        /\ authPc \in {"sleeping", "loop", "fetching"}
                        /\ lastError.type = "transport"
                        /\ lastError.retryable
            ELSE /\ k = Len(authResps)
                 /\ Count(authLog, "sleep") = k - 1
                 /\ lastError.type = "transport"
                 /\ authPc \in {"loop", "exited"}
                 /\ authPc = "exited" =>
                        /\ authLog[Len(authLog) - 1] =
                               Ev("print", "Could not reach the authentication server.", 0)
                        /\ Last(authLog) = Ev("exit", "", 1)

C27_Witness ==
    /\ maxRetries = 3
    /\ Len(authResps) = 3
    /\ AuthNonJsonAt(1) /\ authResps[1].status = 500
    /\ AuthNonJsonAt(2) /\ authResps[2].status = 403
    /\ AuthNonJsonAt(3) /\ authResps[3].status = 201
    /\ authPc = "thrown"

\* The latest auth-start response is 2xx with a JSON object that carries a
\* non-empty sessionId and satisfies the schema.
AuthLastIsSuccess ==
    /\ Len(authResps) >= 1
    /\ ~Last(authResps).threw
    /\ ResponseOk(Last(authResps).status)
    /\ Last(authResps).body.json = "object"
    /\ Last(authResps).body.sessionId \in {"S1", "s 2"}
    /\ Last(authResps).body.error \in {Absent, "E1"}

\* C28: when attempt k (1 <= k <= maxRetries) is the first to succeed, the
\* k-1 attempts before it having failed retryably, startAuthFlow returns the
\* sessionId of that response after exactly k requests and exactly k-1
\* sleeps of 2000, 4000, ..., 2^(k-1) * 1000 ms in this order, requests and
\* sleeps alternating, and exit is never called.
C28_SuccessAfterRetries ==
    AuthLastIsSuccess =>
        LET k == Len(authResps) IN
        /\ k <= maxRetries
        /\ \A i \in 1..(k - 1) : AuthResultType(i) \in {"transport", "server_error"}
        /\ authPc = "returned"
        /\ Last(authLog) = Ev("return", Last(authResps).body.sessionId, 0)
        /\ Count(authLog, "fetch") = k
        /\ Len(AuthSleeps) = k - 1
        /\ \A i \in 1..(k - 1) : AuthSleeps[i] = Ev("sleep", "", Pow2(i) * 1000)
        /\ Len(AuthCalls) = 2 * k - 1
        /\ \A i \in 1..k : AuthCalls[2 * i - 1].e = "fetch"
        /\ Count(authLog, "exit") = 0
        /\ Count(authLog, "throw") = 0

C28_Witness ==
    /\ AuthLastIsSuccess
    /\ Len(authResps) = 3
    /\ authResps[1].threw
    /\ authResps[2].status = 500 /\ authResps[2].body.json = "object"
    /\ authPc = "returned"
    /\ Last(authLog) = Ev("return", "s 2", 0)

\* The response makes the attempt fail with transport: the fetch rejected,
\* or the status is not 2xx and the body is not JSON.
AuthRawTransport(r) ==
    \/ r.threw
    \/ ~ResponseOk(r.status) /\ r.body.json = "invalid"

\* The response makes the attempt fail with server_error: a status that is
\* neither 2xx nor 403, with a body that satisfies the schema.
AuthRawServerError(r) ==
    /\ ~r.threw
    /\ ~ResponseOk(r.status)
    /\ r.status # 403
    /\ AuthStartResponseSchema(r.body)

TransportCause == Ev("print", "Could not reach the authentication server.", 0)

ServerCause == Ev("print", "Authentication server returned an error.", 0)

AuthLogCount(ev) == Cardinality({i \in 1..Len(authLog) : authLog[i] = ev})

\* All maxRetries attempts have been made, the last one failed retryably
\* and startAuthFlow has come to its end.
AuthRetriesExhausted ==
    /\ maxRetries >= 1
    /\ Len(authResps) = maxRetries
    /\ AuthRawTransport(Last(authResps)) \/ AuthRawServerError(Last(authResps))
    /\ authPc \notin {"loop", "fetching", "sleeping"}

\* C29: when the retries are exhausted, the message printed just before
\* exit(1) names the transport cause exactly when the last attempt failed
\* with transport and the server cause exactly when it failed with
\* server_error, whatever the failure types of the earlier attempts.
C29_ExhaustedMessageByLastFailure ==
    AuthRetriesExhausted =>
        /\ authPc = "exited"
        /\ Last(authLog) = Ev("exit", "", 1)
        /\ authLog[Len(authLog) - 1] =
               (IF AuthRawTransport(Last(authResps)) THEN TransportCause ELSE ServerCause)
        /\ AuthLogCount(TransportCause) =
               (IF AuthRawTransport(Last(authResps)) THEN 1 ELSE 0)
        /\ AuthLogCount(ServerCause) =
               (IF AuthRawServerError(Last(authResps)) THEN 1 ELSE 0)

C29_Witness ==
    /\ AuthRetriesExhausted
    /\ maxRetries = 3
    /\ AuthRawServerError(authResps[1])
    /\ AuthRawServerError(authResps[2])
    /\ AuthRawTransport(authResps[3])
    /\ authResps[3].status = 403
    /\ authLog[Len(authLog) - 1] = TransportCause

\* A status request settles in this step with a response whose status is
\* not 2xx.
PollNon2xxSettles ==
    /\ pollPc = "fetching"
    /\ pollPc' # "fetching"
    /\ ~pollResp'.threw
    /\ ~ResponseOk(pollResp'.status)

\* The handling of a transient failure: the counter goes up by one, one
\* sleep of the poll interval is started, the loop goes on.
PollTransientHandling ==
    /\ consecutiveErrors' = consecutiveErrors + 1
    /\ pollPc' = "sleeping"
    /\ Last(pollLog') = Ev("sleep", "", pollIntervalMs)
    /\ Count(pollLog', "sleep") = Count(pollLog, "sleep") + 1
    /\ Count(pollLog', "exit") = 0
    /\ Count(pollLog', "throw") = 0
    /\ Count(pollLog', "return") = 0
    /\ UNCHANGED previousStatus

\* C30 as stated: every status response that is not 2xx is classified
\* http_error with its status code, whatever its body, and handled as a
\* transient failure.
C30_Non2xxIsHttpError ==
    [][PollNon2xxSettles =>
          /\ pollLog'[Len(pollLog) + 1] = Ev("result", "http_error", pollResp'.status)
          /\ PollTransientHandling
      ]_vars

\* C30, amended: a status response that is not 2xx is classified http_error
\* with its status code when its body is valid JSON (whatever the JSON
\* value), and boundary_error, without the status code, when its body is
\* not valid JSON; in both cases it is handled as a transient failure.
C30_Non2xxIsTransient ==
    [][PollNon2xxSettles =>
          /\ pollLog'[Len(pollLog) + 1] =
                 (IF pollResp'.body.json = "invalid"
                  THEN Ev("result", "boundary_error", 0)
                  ELSE Ev("result", "http_error", pollResp'.status))
          /\ PollTransientHandling
      ]_vars

C30_Witness ==
    /\ pollPc = "sleeping"
    /\ ~pollResp.threw
    /\ pollResp.status = 500
    /\ pollResp.body.json = "null"
    /\ consecutiveErrors = 2
    /\ PollResults[Len(PollResults)] = Ev("result", "http_error", 500)

----------------------------------------------------------------------------
(* Properties of fault handling, resources and termination *)

\* The latest status response is 2xx with a JSON body whose status field is
\* missing or is none of pending, verified, expired.
PollStatusOutsideContract ==
    /\ pollPc \notin {"idle", "fetching"}
    /\ Count(pollLog, "fetch") >= 1
    /\ ~pollResp.threw
    /\ ResponseOk(pollResp.status)
    /\ pollResp.body.json \in {"null", "object"}
    /\ pollResp.body.status \notin {"pending", "verified", "expired"}

\* C31 (the poller's half): a 2xx status response whose status field is
\* missing or unknown ends in a fatal fault: pollForVerification throws, it
\* does not sleep and poll again.
C31_UnknownStatusIsFatal ==
    PollStatusOutsideContract =>
        /\ pollPc = "thrown"
        /\ Last(pollLog).e = "throw"
        /\ PollResults[Len(PollResults)].s # "pending"

\* A status request settles in this step.
PollSettles == pollPc = "fetching" /\ pollPc' # "fetching"

\* The response is one that attemptPoll classifies as a transient failure:
\* the fetch rejected, the body is not JSON, or the status is not 2xx.
PollRawTransient(r) ==
    \/ r.threw
    \/ r.body.json = "invalid"
    \/ ~ResponseOk(r.status)

\* The response is one that attemptPoll classifies otherwise: a 2xx status
\* with a JSON object.
PollRawClassified(r) ==
    /\ ~r.threw
    /\ ResponseOk(r.status)
    /\ r.body.json = "object"

\* The 'unstable' warnings and 'restored' messages of the log, in order.
PollStabilityMessages(log) ==
    SelectSeq(log, LAMBDA ev : IsUnstableWarning(ev) \/ IsRestored(ev))

\* C32: the warning flag is set only while the error counter is at least 3;
\* a transient failure adds one to the counter and never resets it or the
\* flag; every other classification sets the counter to 0 and clears the
\* flag; no other step touches the two; and the 'unstable' and 'restored'
\* messages alternate, starting with 'unstable', so that there are never
\* more 'restored' messages than 'unstable' warnings.
C32_WarningFlagFollowsCounter ==
    [][/\ hasShownNetworkWarning' => consecutiveErrors' >= 3
       /\ (PollSettles /\ PollRawTransient(pollResp')) =>
              /\ consecutiveErrors' = consecutiveErrors + 1
              /\ hasShownNetworkWarning => hasShownNetworkWarning'
       /\ (PollSettles /\ PollRawClassified(pollResp')) =>
              /\ consecutiveErrors' = 0
              /\ ~hasShownNetworkWarning'
       /\ ~PollSettles =>
              UNCHANGED <<consecutiveErrors, hasShownNetworkWarning>>
       /\ LET msgs == PollStabilityMessages(pollLog') IN
          \A i \in 1..Len(msgs) :
              IF i % 2 = 1 THEN IsUnstableWarning(msgs[i]) ELSE IsRestored(msgs[i])
      ]_vars

C32_Witness ==
    /\ Len(PollStabilityMessages(pollLog)) = 3
    /\ hasShownNetworkWarning
    /\ consecutiveErrors = 3
    /\ Count(pollLog, "fetch") = 7

\* C33: with maxRetries <= 0 startAuthFlow issues no request and no sleep,
\* and it ends by throwing the invariant breach of the code after the loop:
\* it neither returns a session id nor calls exit.
C33_NoAttemptsIsInvariantBreach ==
    (maxRetries <= 0) =>
        /\ authResps = <<>>
        /\ Count(authLog, "fetch") = 0
        /\ Count(authLog, "sleep") = 0
        /\ Count(authLog, "exit") = 0
        /\ Count(authLog, "return") = 0
        /\ authPc \in {"loop", "thrown"}
        /\ authPc = "loop" => authLog = <<>>
        /\ authPc = "thrown" =>
              authLog = <<Ev("throw", "Invariant breach: retry loop exited without error", 0)>>

C33_Witness ==
    /\ maxRetries = -1
    /\ authPc = "thrown"
    /\ Last(authLog).e = "throw"
    /\ authResps = <<>>

\* The run has ended after downloadInstaller returned success; no SIGINT
\* arrived, and an rm call made by cleanupInstaller did not fail.
RunEndedAfterDownload ==
    /\ RunEnded
    /\ sigint = "none"
    /\ dlPc = "done"
    /\ dlResult.type = "success"
    /\ clRm.called => clRm.ok

\* C34: in every run in which downloadInstaller returned success, the
\* scratch directory it created is gone when the process ends: after
\* install() completed, after install() raised, and after the installer
\* module could not be loaded.
C34_ScratchDirGoneAtEnd ==
    RunEndedAfterDownload =>
        /\ joinParent(dlResult.installerPath) \notin tmpDirs
        /\ \A f \in tmpFiles : f[1] # joinParent(dlResult.installerPath)

\* C35: whatever path cleanupInstaller is called with, also one that merely
\* holds the text of the scratch marker somewhere, the only directories
\* that can go are scratch directories that downloadInstaller created: a
\* call leaves every directory of the user in place, and an rm call it
\* makes has a scratch directory under os.tmpdir() as its target.
C35_OnlyScratchDirsRemoved ==
    [][CleanupStep =>
          /\ userDirs' = userDirs
          /\ clRm'.called => clRm'.target \in tmpDirs
      ]_vars


\* The five kinds of DownloadResult.
DlResultKinds ==
    {"success", "auth_error", "not_found", "checksum_mismatch", "boundary_error"}

\* A boundary call of the settled downloadInstaller call failed: the request,
\* the reading of the error body or of the binary body, the creation of the
\* directory, the writing, the extraction or the removal.
DlBoundaryFailed ==
    /\ dlPc \notin {"idle", "fetching"}
    /\ \/ dlResp.threw
       \/ ~ResponseOk(dlResp.status) /\ dlResp.status \in {400, 403, 404}
            /\ dlResp.json # "object"
       \/ ResponseOk(dlResp.status) /\ Truthy(dlResp.checksum)
            /\ \/ dlResp.body = Unreadable
               \/ dlResp.body # Unreadable /\ Sha256(dlResp.body) = dlResp.checksum
                    /\ dlResp.fs \in {"mkdir", "write", "extract"}

\* C36: whichever boundary call inside downloadInstaller fails, the call
\* completes by returning one of the five kinds of DownloadResult, and no
\* exception leaves it.
C36_BoundaryFailuresAreResults ==
    DlBoundaryFailed =>
        /\ dlPc = "done"
        /\ dlResult.type \in DlResultKinds

\* The extraction failed and the removal of the directory failed as well.
C36_Witness ==
    /\ dlPc = "done"
    /\ ResponseOk(dlResp.status)
    /\ dlResp.fs = "extract"
    /\ ~dlResp.rmOk
    /\ DlLogHas("rm")
    /\ dlResult.type = "boundary_error"


\* C37: when the reading of the credential store fails for a reason other
\* than a missing file, writeNpmToken raises that error, calls fs.writeFile
\* not once and leaves the store as it was; when the file is missing, the
\* store reads as empty and the token is written into a fresh object.
C37_ReadFailurePropagates ==
    [][/\ (npmPc = "reading" /\ npmRead' = "EACCES") =>
            /\ npmPc' = "thrown"
            /\ npmrc' = npmrc
            /\ \A i \in 1..Len(npmLog') : npmLog'[i].e # "writeFile"
       /\ (npmPc = "reading" /\ npmRead' = "ENOENT") =>
            /\ npmPc' = "writing"
            /\ npmExisting' = NoFile
            /\ npmConfig' = <<[key |-> TokenKey, value |-> npmToken]>>
            /\ npmLog'[Len(npmLog')].e = "writeFile"
       /\ (npmRead = "EACCES") => npmrc' = npmrc
      ]_vars

\* A store that exists could not be read, and the call has raised.
C37_Witness ==
    /\ npmRead = "EACCES"
    /\ npmPc = "thrown"
    /\ npmrc.exists
    /\ npmrc.lines # <<>>


\* startAuthFlow has ended: it returned, called exit or raised.
AuthTerminated == authPc \in {"returned", "exited", "thrown"}

\* The ways startAuthFlow has ended in, as the log shows them: a returned
\* session id, one call exit(1), or a raised fault.
AuthEndings ==
    (IF Count(authLog, "return") > 0 THEN {"returned"} ELSE {})
    \cup (IF Count(authLog, "exit") > 0 THEN {"exited"} ELSE {})
    \cup (IF Count(authLog, "throw") > 0 THEN {"thrown"} ELSE {})

AuthWithinBudget ==
    /\ Count(authLog, "fetch") <= maxRetries
    /\ Count(authLog, "sleep") <= maxRetries - 1
    /\ Count(authLog, "return") + Count(authLog, "exit") + Count(authLog, "throw") <= 1
    /\ ~AuthTerminated => AuthEndings = {}
    /\ AuthTerminated =>
         /\ AuthEndings = {authPc}
         /\ authPc = "returned" =>
              /\ Last(authLog).e = "return"
              /\ Last(authLog).s = Last(authResps).body.sessionId
         /\ authPc = "exited" => Last(authLog) = Ev("exit", "", 1)

\* C38: for every maxRetries >= 1 and whatever the server does, startAuthFlow
\* comes to an end after at most maxRetries requests and at most
\* maxRetries - 1 sleeps, and it ends in exactly one way: it returns a
\* session id, it calls exit(1) once, or it raises a fatal fault.
C38_AuthTerminatesWithinBudget ==
    /\ [](maxRetries >= 1 => AuthWithinBudget)
    /\ (maxRetries >= 1) ~> AuthTerminated

\* Every one of at least two attempts failed retryably, and the call ended
\* with exit(1) after maxRetries requests and maxRetries - 1 sleeps.
C38_Witness ==
    /\ maxRetries >= 2
    /\ authPc = "exited"
    /\ Count(authLog, "fetch") = maxRetries
    /\ Count(authLog, "sleep") = maxRetries - 1
    /\ Count(authLog, "exit") = 1


\* pollForVerification has ended: it returned, called exit or raised.
PollTerminated == pollPc \in {"returned", "exited", "thrown"}

\* Every status request settled so far ended in a transient failure.
PollOnlyTransient ==
    \A i \in 1..Len(PollResults) : TransientType(PollResults[i].s)

\* The call ended through the code after the loop: the timeout has passed,
\* the timeout message is printed and exit(1) is called.
PollEndedByTimeout ==
    /\ pollPc = "exited"
    /\ clock - startTime >= pollTimeoutMs
    /\ Len(pollLog) >= 2
    /\ pollLog[Len(pollLog) - 1] = Ev("error", "Verification timed out.", 0)
    /\ Last(pollLog) = Ev("exit", "", 1)
    /\ Count(pollLog, "exit") = 1

\* C39: with a clock that advances by at least one unit from one loop check
\* to the next, pollForVerification comes to an end whatever the server
\* answers; a run that has seen nothing but transient failures, however
\* many, is not ended by the error counter: it goes on until the timeout
\* and ends there with exit(1).
C39_PollTerminatesWithTickingClock ==
    /\ <>PollTerminated
    /\ []((PollOnlyTransient /\ PollTerminated) => PollEndedByTimeout)
    /\ []((PollOnlyTransient /\ consecutiveErrors >= 3 /\ pollPc = "sleeping")
            => <>(pollPc = "loop"))

\* Four status requests failed transiently, one after the other, and the run
\* ended through the timeout.
C39_Witness ==
    /\ Len(PollResults) >= 4
    /\ PollOnlyTransient
    /\ consecutiveErrors = Len(PollResults)
    /\ PollEndedByTimeout

====
